---- MODULE Spec2Model ----
(***************************************************************************)
(* Model of the centrifuge operator console (interface.py / pipeline.py,   *)
(* voice_to_text.py): the countdown that sends the stop command, the       *)
(* command parser and submit paths, the voice confirmation worker threads, *)
(* the telemetry window and the session life cycle.                        *)
(*                                                                         *)
(* Text is modelled as a sequence of one-character strings.  Python's None *)
(* is the empty tuple and a present value v is the one-element tuple <<v>>.*)
(***************************************************************************)
EXTENDS Integers, Sequences, FiniteSets, TLC

(***************************************************************************)
(* Bounds of the model (not program constants).                            *)
(***************************************************************************)
MaxTime == 2
MaxCmds == 2
MaxSessions == 2
MaxWorkers == 2
MaxLines == 3
MaxStops == 2
WinStep == 30
\* the clock of the countdown below counts 1/SubSec s, up to MaxFine of them
SubSec == 2
MaxFine == 8
WinMaxTime == 90

(***************************************************************************)
(* Optional values.                                                        *)
(***************************************************************************)
None == << >>
Some(v) == << v >>
IsSome(o) == o # None
Val(o) == o[1]

(***************************************************************************)
(* Characters and text helpers.                                            *)
(***************************************************************************)
Digits == {"0", "1", "2", "3", "4", "5", "6", "7", "8", "9"}
Space == {" ", "\t", "\n", "\r"}

DigitVal(c) ==
  CASE c = "0" -> 0 [] c = "1" -> 1 [] c = "2" -> 2 [] c = "3" -> 3
    [] c = "4" -> 4 [] c = "5" -> 5 [] c = "6" -> 6 [] c = "7" -> 7
    [] c = "8" -> 8 [] c = "9" -> 9

DigitChar(n) ==
  CASE n = 0 -> "0" [] n = 1 -> "1" [] n = 2 -> "2" [] n = 3 -> "3"
    [] n = 4 -> "4" [] n = 5 -> "5" [] n = 6 -> "6" [] n = 7 -> "7"
    [] n = 8 -> "8" [] n = 9 -> "9"

\* str.lower() on one character (the letters the program's inputs use).
LowerChar(c) ==
  CASE c = "Y" -> "y" [] c = "E" -> "e" [] c = "S" -> "s" [] c = "N" -> "n"
    [] c = "O" -> "o" [] c = "R" -> "r" [] c = "P" -> "p" [] c = "M" -> "m"
    [] c = "I" -> "i" [] c = "U" -> "u" [] c = "T" -> "t" [] c = "C" -> "c"
    [] c = "D" -> "d" [] c = "A" -> "a" [] c = "F" -> "f"
    [] c = "J" -> "j" [] c = "H" -> "h"
    [] OTHER -> c

Lower(s) == [i \in 1..Len(s) |-> LowerChar(s[i])]

\* s[a..b] as a text (empty when a > b).
Slice(s, a, b) == IF a > b THEN << >> ELSE SubSeq(s, a, b)

\* str.strip(): drop leading and trailing whitespace.
Strip(s) ==
  LET keep == {i \in 1..Len(s) : s[i] \notin Space}
  IN  IF keep = {} THEN << >>
      ELSE LET lo == CHOOSE i \in keep : \A j \in keep : i <= j
               hi == CHOOSE i \in keep : \A j \in keep : i >= j
           IN  SubSeq(s, lo, hi)

\* Python's `sub in s` for texts.
Contains(s, sub) ==
  \E i \in 1..(Len(s) - Len(sub) + 1) : SubSeq(s, i, i + Len(sub) - 1) = sub

\* int() of a run of decimal digits.
RECURSIVE DigitsToNat(_)
DigitsToNat(s) ==
  IF s = << >> THEN 0
  ELSE 10 * DigitsToNat(SubSeq(s, 1, Len(s) - 1)) + DigitVal(s[Len(s)])

\* str() of an integer as done by an f-string: "-" and the decimal digits.
RECURSIVE NatToDigits(_)
NatToDigits(n) ==
  IF n < 10 THEN << DigitChar(n) >>
  ELSE NatToDigits(n \div 10) \o << DigitChar(n % 10) >>

IntToStr(n) == IF n < 0 THEN << "-" >> \o NatToDigits(0 - n) ELSE NatToDigits(n)

AllIn(s, cls) == \A i \in 1..Len(s) : s[i] \in cls

(***************************************************************************)
(* A backtracking matcher for the regular expressions the program uses: a  *)
(* regex is a sequence of items [cls, q], a character class with the       *)
(* quantifier "1", "?", "*" or "+"; all quantifiers are greedy as in the   *)
(* re module.  The result is [ok, lens]: the length matched by every item. *)
(***************************************************************************)
It(cls, q) == [cls |-> cls, q |-> q]
Ch(c) == It({c}, "1")
\* one letter under re.IGNORECASE
Ci(lowerc, upperc) == It({lowerc, upperc}, "1")

NoMatch == [ok |-> FALSE, lens |-> << >>]

\* number of consecutive characters of s from pos on that are in cls
RECURSIVE RunLen(_, _, _)
RunLen(s, pos, cls) ==
  IF pos > Len(s) \/ s[pos] \notin cls THEN 0
  ELSE 1 + RunLen(s, pos + 1, cls)

RECURSIVE MatchFrom(_, _, _, _, _)
RECURSIVE TryLen(_, _, _, _, _, _, _)

\* items i.. of re against s from pos; toEnd: the match must end at the end of
\* s (the pattern's "$").
MatchFrom(re, s, i, pos, toEnd) ==
  IF i > Len(re)
  THEN IF toEnd /\ pos # Len(s) + 1 THEN NoMatch ELSE [ok |-> TRUE, lens |-> << >>]
  ELSE LET run == RunLen(s, pos, re[i].cls)
           lo == IF re[i].q \in {"1", "+"} THEN 1 ELSE 0
           hi == IF re[i].q \in {"1", "?"} THEN (IF run > 0 THEN 1 ELSE 0) ELSE run
       IN  TryLen(re, s, i, pos, toEnd, hi, lo)

\* greedy: the longest length k in lo..hi with which the rest still matches
TryLen(re, s, i, pos, toEnd, k, lo) ==
  IF k < lo THEN NoMatch
  ELSE LET r == MatchFrom(re, s, i + 1, pos + k, toEnd)
       IN  IF r.ok THEN [ok |-> TRUE, lens |-> << k >> \o r.lens]
           ELSE TryLen(re, s, i, pos, toEnd, k - 1, lo)

RECURSIVE SumTo(_, _)
SumTo(lens, n) == IF n = 0 THEN 0 ELSE lens[n] + SumTo(lens, n - 1)

\* the text matched by item g of a match that started at start
Group(s, start, lens, g) ==
  Slice(s, start + SumTo(lens, g - 1), start + SumTo(lens, g) - 1)

\* re.match: match at the start of s only.
ReMatch(re, s, toEnd) ==
  LET r == MatchFrom(re, s, 1, 1, toEnd)
  IN  [ok |-> r.ok, start |-> 1, lens |-> r.lens]

\* re.search: the leftmost start position at which the regex matches.
RECURSIVE SearchFrom(_, _, _)
SearchFrom(re, s, start) ==
  IF start > Len(s) + 1 THEN [ok |-> FALSE, start |-> 0, lens |-> << >>]
  ELSE LET r == MatchFrom(re, s, 1, start, FALSE)
       IN  IF r.ok THEN [ok |-> TRUE, start |-> start, lens |-> r.lens]
           ELSE SearchFrom(re, s, start + 1)

ReSearch(re, s) == SearchFrom(re, s, 1)

(***************************************************************************)
(* Python's int(text) and int(float(text)).                                *)
(***************************************************************************)
Signs == {"+", "-"}

\* int(str): optional sign and decimal digits, surrounding whitespace allowed
\* (digit-group underscores are not modelled).  [ok, val]; ~ok is ValueError.
IntBody(neg, body) ==
  IF Len(body) > 0 /\ AllIn(body, Digits)
  THEN [ok |-> TRUE, val |-> IF neg THEN 0 - DigitsToNat(body) ELSE DigitsToNat(body)]
  ELSE [ok |-> FALSE, val |-> 0]

IntStripped(s) ==
  IF Len(s) > 0 /\ s[1] \in Signs
  THEN IntBody(s[1] = "-", Slice(s, 2, Len(s)))
  ELSE IntBody(FALSE, s)

PyInt(text) == IntStripped(Strip(text))

RECURSIVE Pow10(_)
Pow10(n) == IF n = 0 THEN 1 ELSE 10 * Pow10(n - 1)

\* float(text): kind "ok" with the value sign * num / den (den a power of
\* ten, the fraction reduced), "ValueError" (not a float literal), "inf" or
\* "nan".  The literal is [sign] digits [. digits] [e [sign] digits], inf,
\* infinity or nan in any letter case, surrounding whitespace allowed.
RECURSIVE Reduce10(_, _)
Reduce10(num, den) ==
  IF den > 1 /\ num % 10 = 0 THEN Reduce10(num \div 10, den \div 10)
  ELSE [num |-> num, den |-> den]

\* the index of the first c in s from i on, Len(s) + 1 when there is none
RECURSIVE Find(_, _, _)
Find(s, c, i) == IF i > Len(s) \/ s[i] = c THEN i ELSE Find(s, c, i + 1)

FloatBad == [kind |-> "ValueError", neg |-> FALSE, num |-> 0, den |-> 1]

\* the value q with its sign (-0.0 is stored as 0)
FloatSigned(neg, q) ==
  [kind |-> "ok", neg |-> neg /\ q.num # 0, num |-> q.num, den |-> q.den]

\* the digits ip.fp times 10^ex
FloatValue(neg, ip, fp, ex) ==
  FloatSigned(neg,
    IF ex >= Len(fp)
    THEN [num |-> DigitsToNat(ip \o fp) * Pow10(ex - Len(fp)), den |-> 1]
    ELSE Reduce10(DigitsToNat(ip \o fp), Pow10(Len(fp) - ex)))

\* an exponent is digits with an optional sign, no whitespace
FloatExp(neg, ip, fp, hasExp, expo) ==
  IF ~hasExp THEN FloatValue(neg, ip, fp, 0)
  ELSE IF /\ Len(expo) > 0
          /\ expo[1] \notin Space /\ expo[Len(expo)] \notin Space
          /\ PyInt(expo).ok
       THEN FloatValue(neg, ip, fp, PyInt(expo).val)
       ELSE FloatBad

\* the mantissa is digits with at most one dot and at least one digit
FloatMant(neg, ip, fp, hasExp, expo) ==
  IF AllIn(ip, Digits) /\ AllIn(fp, Digits) /\ Len(ip) + Len(fp) > 0
  THEN FloatExp(neg, ip, fp, hasExp, expo)
  ELSE FloatBad

FloatDot(neg, mant, d1, hasExp, expo) ==
  FloatMant(neg, Slice(mant, 1, d1 - 1), Slice(mant, d1 + 1, Len(mant)), hasExp, expo)

FloatBody(neg, body, e1) ==
  IF body \in {<<"i","n","f">>, <<"i","n","f","i","n","i","t","y">>}
  THEN [FloatBad EXCEPT !.kind = "inf"]
  ELSE IF body = <<"n","a","n">> THEN [FloatBad EXCEPT !.kind = "nan"]
  ELSE FloatDot(neg, Slice(body, 1, e1 - 1), Find(Slice(body, 1, e1 - 1), ".", 1),
                e1 <= Len(body), Slice(body, e1 + 1, Len(body)))

FloatUnsigned(neg, body) == FloatBody(neg, body, Find(body, "e", 1))

FloatStripped(s) ==
  IF Len(s) > 0 /\ s[1] \in Signs
  THEN FloatUnsigned(s[1] = "-", Slice(s, 2, Len(s)))
  ELSE FloatUnsigned(FALSE, s)

PyFloat(text) == FloatStripped(Lower(Strip(text)))

\* int(float(text)): kind "ok" with the value truncated toward zero,
\* "ValueError" (float() raised, or int(nan)) or "OverflowError" (int(inf)).
PyIntOfFloat(text) ==
  LET f == PyFloat(text)
      mag == f.num \div f.den
  IN  IF f.kind = "inf" THEN [kind |-> "OverflowError", val |-> 0]
      ELSE IF f.kind = "ok" THEN [kind |-> "ok", val |-> IF f.neg THEN 0 - mag ELSE mag]
      ELSE [kind |-> "ValueError", val |-> 0]

(***************************************************************************)
(* parse_command                                                           *)
(***************************************************************************)
TwoNumbersRe_SpaceOnly == << It(Digits, "+"), It(Space, "+"), It(Digits, "+") >>
\* r"^(\d+)[,\s]+(\d+)$"
TwoNumbersRe == << It(Digits, "+"), It({","} \cup Space, "+"), It(Digits, "+") >>
\* r"(\d+)\s*rpm", re.IGNORECASE
RpmRe == << It(Digits, "+"), It(Space, "*"), Ci("r", "R"), Ci("p", "P"), Ci("m", "M") >>
\* r"(\d+)\s*(minutes?|seconds?)", re.IGNORECASE: the two alternatives
MinutesRe == << It(Digits, "+"), It(Space, "*"), Ci("m", "M"), Ci("i", "I"),
                Ci("n", "N"), Ci("u", "U"), Ci("t", "T"), Ci("e", "E"),
                It({"s", "S"}, "?") >>
SecondsRe == << It(Digits, "+"), It(Space, "*"), Ci("s", "S"), Ci("e", "E"),
                Ci("c", "C"), Ci("o", "O"), Ci("n", "N"), Ci("d", "D"),
                It({"s", "S"}, "?") >>

\* search of the alternation: the leftmost match; at one position "minutes?"
\* is tried before "seconds?".
TimeSearch(s) ==
  LET a == ReSearch(MinutesRe, s)
      b == ReSearch(SecondsRe, s)
  IN  IF a.ok /\ (~b.ok \/ a.start <= b.start) THEN a ELSE b

\* group(2) of the time match: the unit word
UnitOf(s, m) == Slice(s, m.start + m.lens[1] + m.lens[2], m.start + SumTo(m.lens, Len(m.lens)) - 1)

IsMinuteUnit_CaseSensitive(unit) == Contains(unit, <<"m", "i", "n">>)
\* the unit test `'min' in time_match.group(2).lower()`
IsMinuteUnit(unit) == Contains(Lower(unit), <<"m", "i", "n">>)

\* [rpm, timer, raised]: rpm and timer are optional integers; raised is the
\* exception the call ends with when int(float(command)) overflows.
parse_command(text) ==
  LET command == Strip(text)
      two == ReMatch(TwoNumbersRe, command, TRUE)
      rpm_match == ReSearch(RpmRe, command)
      time_match == TimeSearch(command)
      fl == PyIntOfFloat(command)
      rpm_val == IF rpm_match.ok
                 THEN Some(DigitsToNat(Group(command, rpm_match.start, rpm_match.lens, 1)))
                 ELSE IF fl.kind = "ok" THEN Some(fl.val) ELSE None
      t0 == DigitsToNat(Group(command, time_match.start, time_match.lens, 1))
      timer == IF time_match.ok
               THEN Some(IF IsMinuteUnit(UnitOf(command, time_match)) THEN t0 * 60 ELSE t0)
               ELSE None
  IN  IF two.ok
      THEN [rpm |-> Some(DigitsToNat(Group(command, 1, two.lens, 1))),
            timer |-> Some(DigitsToNat(Group(command, 1, two.lens, 3))),
            raised |-> FALSE]
      ELSE IF ~rpm_match.ok /\ fl.kind = "OverflowError"
           THEN [rpm |-> None, timer |-> None, raised |-> TRUE]
           ELSE [rpm |-> rpm_val, timer |-> timer, raised |-> FALSE]

\* WireLine without the comma between the two numbers
WireLine_NoComma(rpm, timer) ==
  IF IsSome(timer) THEN IntToStr(rpm) \o IntToStr(Val(timer)) \o << "\n" >>
  ELSE IntToStr(rpm) \o << "\n" >>

\* the wire line of a command: f"{rpm},{timer}\n" or f"{rpm}\n"
WireLine(rpm, timer) ==
  IF IsSome(timer) THEN IntToStr(rpm) \o << "," >> \o IntToStr(Val(timer)) \o << "\n" >>
  ELSE IntToStr(rpm) \o << "\n" >>

\* "0\n", the stop command
StopLine == << "0", "\n" >>

(***************************************************************************)
(* Telemetry line decoding (run_session.pattern and the conversions).      *)
(***************************************************************************)
NumCls == Digits \cup {"-", "."}
IntCls == Digits \cup {"-"}

\* r"RPM:\s*([-\d.]+)\s+MA:\s*([-\d.]+)\s+Set:\s*([-\d.]+)\s+PWM:\s*([-\d]+)\s+%Err:\s*([-\d.]+)"
pattern ==
  << Ch("R"), Ch("P"), Ch("M"), Ch(":"), It(Space, "*"), It(NumCls, "+"), It(Space, "+"),
     Ch("M"), Ch("A"), Ch(":"), It(Space, "*"), It(NumCls, "+"), It(Space, "+"),
     Ch("S"), Ch("e"), Ch("t"), Ch(":"), It(Space, "*"), It(NumCls, "+"), It(Space, "+"),
     Ch("P"), Ch("W"), Ch("M"), Ch(":"), It(Space, "*"), It(IntCls, "+"), It(Space, "+"),
     Ch("%"), Ch("E"), Ch("r"), Ch("r"), Ch(":"), It(Space, "*"), It(NumCls, "+") >>

\* a float value as the model stores it
FloatOf(f) == << f.neg, f.num, f.den >>

\* One stripped serial line: [ok, rpm, ma, set, pwm, perr]; ~ok when the
\* pattern is not found or a conversion raises ValueError.
Decode(line) ==
  LET m == ReSearch(pattern, line)
      g(k) == Group(line, m.start, m.lens, k)
      rpm_val == PyFloat(g(6))
      ma_val == PyFloat(g(12))
      set_val == PyFloat(g(19))
      pwm_val == PyInt(g(26))
      perr_val == PyFloat(g(34))
      none == [ok |-> FALSE, rpm |-> << >>, ma |-> << >>, set |-> << >>,
               pwm |-> 0, perr |-> << >>]
  IN  IF ~m.ok THEN none
      ELSE IF rpm_val.kind = "ok" /\ ma_val.kind = "ok" /\ set_val.kind = "ok"
              /\ pwm_val.ok /\ perr_val.kind = "ok"
           THEN [ok |-> TRUE, rpm |-> FloatOf(rpm_val), ma |-> FloatOf(ma_val),
                 set |-> FloatOf(set_val), pwm |-> pwm_val.val,
                 perr |-> FloatOf(perr_val)]
           ELSE none

\* seconds of telemetry the window keeps
WINDOW == 60

(***************************************************************************)
(* Inputs the environment can give.                                        *)
(***************************************************************************)
\* raw stdout of the command-extraction call
Outputs == { <<"5", " ", "1", "\n">>, <<"9">>, <<"o", "k">>, << >> }

\* transcriptions of the confirmation recording
Responses == { <<" ", "Y", "e", "s", ".">>, <<" ", "N", "o", ".">>, << >> }

\* contents of the RPM and Time boxes
RpmTexts == { <<"5">>, <<"x">> }
TimeTexts == { <<"1">>, << >> }

\* more of each, for the study of what a submitted command writes: texts
\* with a sign, with a duration and no speed, and one that is no number
CmdOutputs == { <<"5", " ", "1", "\n">>, <<"-", "5">>,
                <<"5", " ", "m", "i", "n", "u", "t", "e", "s">>, <<"i", "n", "f">> }
CmdRpmTexts == { <<"5">>, <<"x">>, <<"-", "5">> }
CmdTimeTexts == { <<"1">>, << >>, <<"x">> }

\* lines the controller sends: two well-formed ones, and one each with a
\* value that is no number, a missing field and the labels in another order
GoodLine ==
  <<"R","P","M",":","1"," ","M","A",":","1"," ","S","e","t",":","2"," ",
    "P","W","M",":","3"," ","%","E","r","r",":","-","0",".","5","\r","\n">>
GoodLine2 ==
  <<"R","P","M",":","7"," ","M","A",":","8"," ","S","e","t",":","9"," ",
    "P","W","M",":","-","4"," ","%","E","r","r",":","6","\n">>
BadValueLine ==
  <<"R","P","M",":","1"," ","M","A",":","1",".","2",".","3"," ","S","e","t",":","2"," ",
    "P","W","M",":","3"," ","%","E","r","r",":","1","\n">>
MissingFieldLine ==
  <<"R","P","M",":","1"," ","M","A",":","1"," ","S","e","t",":","2"," ",
    "%","E","r","r",":","1","\n">>
SwappedLine ==
  <<"M","A",":","1"," ","R","P","M",":","1"," ","S","e","t",":","2"," ",
    "P","W","M",":","3"," ","%","E","r","r",":","1","\n">>

SerialLines == {GoodLine, GoodLine2, BadValueLine, MissingFieldLine, SwappedLine}

\* where the transport may break a line: not at all, or four bytes before
\* its end
Cuts(line) == {Len(line), Len(line) - 4}

(***************************************************************************)
(* Texts given to parse_command.                                           *)
(***************************************************************************)
\* unsigned integers as they are written, with their values
Nums ==
  { [s |-> <<"0">>, v |-> 0], [s |-> <<"1","5">>, v |-> 15],
    [s |-> <<"0","0","7">>, v |-> 7], [s |-> <<"2","0","0","0">>, v |-> 2000] }

\* whitespace around a text
Pads ==
  { << >>, <<" ">>, <<"\n">>, <<"\t"," ">> }

\* what stands between the two integers of a pair
Seps ==
  { <<" ">>, <<" "," ">>, <<"\t">>, <<",">>, <<","," ">>, <<",",",">> }

\* "<rpm> <duration>" and "<rpm>,<duration>" with whitespace around
PairTexts ==
  { pre \o r.s \o sep \o d.s \o post :
      pre \in Pads, r \in Nums, sep \in Seps, d \in Nums, post \in Pads }

\* two integers with something else in the text
OddPairTexts ==
  { <<"5"," ","3"," ","r","p","m">>, <<"5"," ","3"," ","4">>, <<"5",";","3">>,
    <<"x","5"," ","3">>, <<"5"," ","3","x">>, <<"5",".","0"," ","3">>,
    <<"5"," ","-","3">>, <<"5",",">>, <<"5"," "," ",",">>,
    <<"+","5"," ","3">> }

\* the part of a phrase that gives the speed
RpmParts ==
  { << >>, <<"2","0"," ","r","p","m">>, <<"2","0","R","P","M">>,
    <<"2","0"," ","\t","R","p","m">>, <<"r","p","m">>,
    <<"2","0"," ","r","p">>, <<"-","2","0"," ","r","p","m">>,
    <<"2",".","5","r","p","m">>, <<"7"," ","2","0"," ","r","p","m">> }

\* the part of a phrase that gives the duration
TimeParts ==
  { << >>, <<" ","5"," ","m","i","n","u","t","e","s">>,
    <<" ","5"," ","M","i","n","u","t","e">>,
    <<" ","5","S","E","C","O","N","D","S">>,
    <<" ","5"," ","s","e","c","o","n","d">>, <<" ","5"," ","m","i","n">>,
    <<" ","m","i","n","u","t","e","s">>, <<" ","5"," ","h","o","u","r","s">>,
    <<" ","3"," ","s","e","c","o","n","d","s"," ","5"," ","m","i","n","u","t","e","s">> }

\* how a phrase begins
Heads ==
  { << >>, <<"s","e","t"," ","t","o"," ">>, <<" ">> }

\* phrases: speed then duration, and duration then speed
PhraseTexts ==
  { h \o a \o b : h \in Heads, a \in RpmParts, b \in TimeParts }
    \cup { h \o b \o << " " >> \o a : h \in Heads, a \in RpmParts, b \in TimeParts }

\* the examples of the command grammar
ExampleTexts ==
  { <<"s","e","t"," ","t","o"," ","2","0","0","0"," ","r","p","m"," ","f","o","r"," ","5"," ","m","i","n","u","t","e","s">>,
    <<"1","5","0","0"," ","3","0">>, <<"1","5","0","0",",","3","0">>,
    <<"2","0","0","0">>, <<"a","b","c">>,
    <<"5"," ","m","i","n","u","t","e","s">> }

\* texts that are one number, or look like one
NumberTexts ==
  { << >>, <<" ">>, <<"\n">>, <<"0">>, <<" ","2","0"," ">>,
    <<"2","0",".","7">>, <<"-","5">>, <<"+","7">>, <<"1","e","3">>,
    <<"1","e","-","3">>, <<".","5">>, <<"5",".">>, <<"i","n","f">>,
    <<"-","i","n","f">>, <<"I","n","f","i","n","i","t","y">>, <<"n","a","n">>,
    <<"-">>, <<".">>, <<"e","3">>, <<"1",".","2",".","3">>,
    <<"2","0","0","0"," ">> }

\* values of timed commands, and the wire lines send_command builds of them
WireNums == {0, 7, 10, 300, 2000}

WireTexts == { WireLine(r, Some(d)) : r \in WireNums, d \in WireNums }

ParseTexts ==
  PairTexts \cup OddPairTexts \cup PhraseTexts \cup ExampleTexts \cup NumberTexts
    \cup WireTexts

(***************************************************************************)
(* State.                                                                  *)
(***************************************************************************)
VARIABLES
  now,                 \* time.time(), in seconds
  pc,                  \* position of the main thread
  open,                \* the serial port `ser` is open (a session is running)
  sess,                \* number of run_session calls so far
  countdown_end_time,  \* the global deadline, None or <<t>>
  countdown_text,      \* the countdown label: None for "" or <<seconds>>
  m_cmd,               \* manual_submit: the line about to be written
  start_time,          \* time.time() at the start of the session
  t_data, rpm_data, ma_data, set_data, pwm_data, perr_data,
  rx,                  \* the bytes waiting in the serial input buffer
  inflight,            \* the rest of a line the controller has sent in part
  reads,               \* what the readline calls of the tick under way returned
  pops,                \* number of frames the tick under way has popped
  cmd_text,            \* parse_command: the text of the call under study
  cmd_parsed,          \* parse_command: None or <<what the call returned>>
  rpm_box, time_box,   \* the text typed into the RPM and Time boxes
  wire,                \* calls of ser.write on the session's port, in order
  DURATION,            \* v2t.DURATION
  wpc,                 \* position of every voice worker thread
  wout,                \* worker: `output`, the extracted command text
  wresp,               \* worker: `response`, the confirmation transcription
  wdata,               \* worker: `data`, the line send_command writes
  worig,               \* worker: original_duration
  wsess                \* worker: the session in which it was started

vars == << now, pc, open, sess, countdown_end_time, countdown_text,
           m_cmd, start_time,
           t_data, rpm_data, ma_data, set_data, pwm_data, perr_data,
           rx, inflight, reads, pops, cmd_text, cmd_parsed, rpm_box, time_box,
           wire, DURATION, wpc, wout, wresp, wdata, worig, wsess >>

windowVars == << t_data, rpm_data, ma_data, set_data, pwm_data, perr_data >>
workerVars == << wpc, wout, wresp, wdata, worig, wsess >>
mainVars == << pc, countdown_text, m_cmd >>
sessionVars == << open, sess, start_time >>
envVars == << inflight, cmd_text, cmd_parsed, rpm_box, time_box >>
tickLog == << reads, pops >>

Workers == 1..MaxWorkers

\* v2t.DURATION as the module sets it, and the value used for confirmations
DEFAULT_DURATION == 8
CONFIRM_DURATION == 5

\* one ser.write call: the bytes, whether the call returned (ok) or raised,
\* the code that made it and the session its thread was started in
WriteCall(data, ok, src, origin) ==
  [data |-> data, ok |-> ok, src |-> src, origin |-> origin]

\* outcomes of ser.write: a closed port always raises
WriteOutcomes == IF open THEN BOOLEAN ELSE {FALSE}

\* commands of this session so far: the lines submitted on the port and the
\* submits and voice requests still under way
Commands ==
  Cardinality({i \in 1..Len(wire) : wire[i].src # "tick"})
  + Cardinality({w \in Workers : wpc[w] # "idle"})
  + (IF pc = "ms_write" THEN 1 ELSE 0)

\* the globals at program start, but for the text given to parse_command
InitProgram ==
  /\ now = 0
  /\ pc = "closed"
  /\ open = FALSE
  /\ sess = 0
  /\ countdown_end_time = None
  /\ countdown_text = None
  /\ m_cmd = << >>
  /\ start_time = 0
  /\ t_data = << >> /\ rpm_data = << >> /\ ma_data = << >>
  /\ set_data = << >> /\ pwm_data = << >> /\ perr_data = << >>
  /\ rx = << >>
  /\ inflight = << >>
  /\ reads = << >>
  /\ pops = 0
  /\ cmd_parsed = None
  /\ rpm_box = << >> /\ time_box = << >>
  /\ wire = << >>
  /\ DURATION = DEFAULT_DURATION
  /\ wpc = [w \in Workers |-> "idle"]
  /\ wout = [w \in Workers |-> << >>]
  /\ wresp = [w \in Workers |-> << >>]
  /\ wdata = [w \in Workers |-> << >>]
  /\ worig = [w \in Workers |-> 0]
  /\ wsess = [w \in Workers |-> 0]

Init == InitProgram /\ cmd_text = << >>

(***************************************************************************)
(* The periodic tick: run_session.update, called by FuncAnimation on the   *)
(* main thread.  The window is touched by the main thread only; the        *)
(* countdown is shared with the voice workers, so each read and write of   *)
(* countdown_end_time is a step of its own.                                *)
(***************************************************************************)
Window == [t |-> t_data, rpm |-> rpm_data, ma |-> ma_data, set |-> set_data,
           pwm |-> pwm_data, perr |-> perr_data]

\* PushLine storing the timestamp as soon as the pattern has matched
PushLine_Partial(win, raw, current_time) ==
  IF Strip(raw) # << >> /\ Decode(Strip(raw)).ok
  THEN [t |-> Append(win.t, current_time),
        rpm |-> Append(win.rpm, Decode(Strip(raw)).rpm),
        ma |-> Append(win.ma, Decode(Strip(raw)).ma),
        set |-> Append(win.set, Decode(Strip(raw)).set),
        pwm |-> Append(win.pwm, Decode(Strip(raw)).pwm),
        perr |-> Append(win.perr, Decode(Strip(raw)).perr)]
  ELSE IF ReSearch(pattern, Strip(raw)).ok
       THEN [win EXCEPT !.t = Append(win.t, current_time)]
       ELSE win

\* the body of the `while ser.in_waiting` loop for one line
PushLine(win, raw, current_time) ==
  LET line == Strip(raw)
      f == Decode(line)
  IN  IF line # << >> /\ f.ok
      THEN [t |-> Append(win.t, current_time), rpm |-> Append(win.rpm, f.rpm),
            ma |-> Append(win.ma, f.ma), set |-> Append(win.set, f.set),
            pwm |-> Append(win.pwm, f.pwm), perr |-> Append(win.perr, f.perr)]
      ELSE win

\* ser.readline() with timeout=0.1 on a buffer that is not empty: the bytes
\* up to and including the first "\n", or, when the timeout ends the call
\* before a "\n" has come, the bytes received so far
ReadLen(buf) == IF Find(buf, "\n", 1) <= Len(buf) THEN Find(buf, "\n", 1) ELSE Len(buf)

\* DrainAll ending the loop at the first line that is rejected
RECURSIVE DrainAll_StopAtReject(_, _, _)
DrainAll_StopAtReject(win, buf, current_time) ==
  IF buf = << >> THEN win
  ELSE IF PushLine(win, Slice(buf, 1, ReadLen(buf)), current_time) = win THEN win
       ELSE DrainAll_StopAtReject(
              PushLine(win, Slice(buf, 1, ReadLen(buf)), current_time),
              Slice(buf, ReadLen(buf) + 1, Len(buf)), current_time)

\* the loop `while ser.in_waiting`, lines 316-339
RECURSIVE DrainAll(_, _, _)
DrainAll(win, buf, current_time) ==
  IF buf = << >> THEN win
  ELSE DrainAll(PushLine(win, Slice(buf, 1, ReadLen(buf)), current_time),
                Slice(buf, ReadLen(buf) + 1, Len(buf)), current_time)

\* `while t_data and t_data[0] < current_time - 60`: pop the head of all six
\* IsStale with twice the span
IsStale_Double(t, current_time) == t < current_time - 2 * WINDOW

\* IsStale with the boundary included
IsStale_Inclusive(t, current_time) == t <= current_time - WINDOW

\* the test `t_data[0] < current_time - 60`
IsStale(t, current_time) == t < current_time - WINDOW

RECURSIVE EvictOld(_, _)
EvictOld(win, current_time) ==
  IF win.t # << >> /\ IsStale(win.t[1], current_time)
  THEN EvictOld([t |-> Tail(win.t), rpm |-> Tail(win.rpm), ma |-> Tail(win.ma),
                 set |-> Tail(win.set), pwm |-> Tail(win.pwm),
                 perr |-> Tail(win.perr)], current_time)
  ELSE win

\* the results of the readline calls of one drain loop, in order
RECURSIVE ReadAll(_)
ReadAll(buf) ==
  IF buf = << >> THEN << >>
  ELSE << Slice(buf, 1, ReadLen(buf)) >> \o ReadAll(Slice(buf, ReadLen(buf) + 1, Len(buf)))

SetWindow(win) ==
  /\ t_data' = win.t /\ rpm_data' = win.rpm /\ ma_data' = win.ma
  /\ set_data' = win.set /\ pwm_data' = win.pwm /\ perr_data' = win.perr

\* TickDrain going on to the countdown when no line was waiting
TickDrain_SkipIdle ==
  /\ pc = "idle" /\ open
  /\ SetWindow(DrainAll(Window, rx, now - start_time))
  /\ rx' = << >>
  /\ reads' = ReadAll(rx)
  /\ pops' = 0
  /\ pc' = IF rx = << >> THEN "cd_test" ELSE "evict"
  /\ UNCHANGED << envVars, now, sessionVars, countdown_end_time, countdown_text,
                  m_cmd, wire, DURATION, workerVars >>

\* update, lines 316-339: read and decode every waiting line
TickDrain ==
  /\ pc = "idle" /\ open
  /\ SetWindow(DrainAll(Window, rx, now - start_time))
  /\ rx' = << >>
  /\ reads' = ReadAll(rx)
  /\ pops' = 0
  /\ pc' = "evict"
  /\ UNCHANGED << envVars, now, sessionVars, countdown_end_time, countdown_text,
                  m_cmd, wire, DURATION, workerVars >>

\* TickEvict that pops nothing
TickEvict_None ==
  /\ pc = "evict"
  /\ pops' = 0
  /\ pc' = "cd_test"
  /\ UNCHANGED << envVars, reads, now, sessionVars, countdown_end_time, countdown_text,
                  m_cmd, windowVars, rx, wire, DURATION, workerVars >>

\* update, lines 341-349: keep 60 s of data
TickEvict ==
  /\ pc = "evict"
  /\ SetWindow(EvictOld(Window, now - start_time))
  /\ pops' = Len(t_data) - Len(t_data')
  /\ pc' = "cd_test"
  /\ UNCHANGED << envVars, reads, now, sessionVars, countdown_end_time, countdown_text,
                  m_cmd, rx, wire, DURATION, workerVars >>

\* update returns: the log of the tick is closed
EndTick == reads' = << >> /\ pops' = 0

\* update, line 362 and lines 374-375: `if countdown_end_time is not None`
TickTest ==
  /\ pc = "cd_test"
  /\ IF IsSome(countdown_end_time)
     THEN /\ pc' = "cd_remaining"
          /\ UNCHANGED countdown_text
     ELSE /\ pc' = "idle"
          /\ countdown_text' = None
  /\ IF pc' = "idle" THEN EndTick ELSE UNCHANGED tickLog
  /\ UNCHANGED << envVars, now, sessionVars, countdown_end_time, m_cmd,
                  windowVars, rx, wire, DURATION, workerVars >>

\* IsExpired with the boundary left out
IsExpired_Strict(remaining) == remaining < 0

\* the test `remaining <= 0` of line 364
IsExpired(remaining) == remaining <= 0

\* update, lines 363-365 and 372-373: the second read of the global; the
\* subtraction raises TypeError when a worker has stored None meanwhile
TickRemaining ==
  /\ pc = "cd_remaining"
  /\ IF countdown_end_time = None
     THEN /\ pc' = "idle"
          /\ UNCHANGED countdown_text
     ELSE LET remaining == Val(countdown_end_time) - now
          IN  IF IsExpired(remaining)
              THEN /\ pc' = "cd_stop"
                   /\ countdown_text' = None
              ELSE /\ pc' = "idle"
                   /\ countdown_text' = Some(remaining)
  /\ IF pc' = "idle" THEN EndTick ELSE UNCHANGED tickLog
  /\ UNCHANGED << envVars, now, sessionVars, countdown_end_time, m_cmd,
                  windowVars, rx, wire, DURATION, workerVars >>

\* update, lines 366-370: write the stop command; a failure is only printed
TickStop ==
  /\ pc = "cd_stop"
  /\ \E ok \in WriteOutcomes :
       wire' = Append(wire, WriteCall(StopLine, ok, "tick", sess))
  /\ pc' = "cd_clear"
  /\ UNCHANGED << envVars, tickLog, now, sessionVars, countdown_end_time, countdown_text,
                  m_cmd, windowVars, rx, DURATION, workerVars >>

\* update, line 371
TickClear ==
  /\ pc = "cd_clear"
  /\ countdown_end_time' = None
  /\ pc' = "idle"
  /\ EndTick
  /\ UNCHANGED << envVars, now, sessionVars, countdown_text, m_cmd,
                  windowVars, rx, wire, DURATION, workerVars >>

(***************************************************************************)
(* Submitting a command.                                                   *)
(***************************************************************************)
\* Arm adding the duration to a deadline that is already armed
Arm_Stacked(timer, t) ==
  IF IsSome(timer)
  THEN Some((IF IsSome(countdown_end_time) THEN Val(countdown_end_time) ELSE t) + Val(timer))
  ELSE None

\* the deadline a command with the optional duration `timer` sets
Arm(timer, t) == IF IsSome(timer) THEN Some(t + Val(timer)) ELSE None

\* manual_submit, lines 125-135 and 140-141, for the box texts rb and tb
ManualSubmitOf(rb, tb) ==
  LET rpm_text == Strip(rb)
      time_text == Strip(tb)
      rpm_val == PyInt(rpm_text)
      timer_p == PyInt(time_text)
      timer_val == IF time_text # << >> THEN Some(timer_p.val) ELSE None
  IN  IF rpm_val.ok /\ (time_text = << >> \/ timer_p.ok)
      THEN /\ m_cmd' = WireLine(rpm_val.val, timer_val)
           /\ countdown_end_time' = Arm(timer_val, now)
           /\ pc' = "ms_write"
      ELSE \* ValueError: a message is printed
           UNCHANGED << m_cmd, countdown_end_time, pc >>

\* manual_submit on the main thread: the boxes are filled and Submit is
\* pressed
ManualSubmit ==
  /\ pc = "idle" /\ open /\ Commands < MaxCmds
  /\ \E rb \in RpmTexts, tb \in TimeTexts : ManualSubmitOf(rb, tb)
  /\ UNCHANGED << envVars, tickLog, now, sessionVars, countdown_text,
                  windowVars, rx, wire, DURATION, workerVars >>

\* the operator types into the two boxes
TypeBoxes ==
  /\ pc = "idle" /\ open
  /\ \E rb \in CmdRpmTexts, tb \in CmdTimeTexts :
       rpm_box' = rb /\ time_box' = tb
  /\ UNCHANGED << inflight, cmd_text, cmd_parsed, tickLog, now, mainVars, sessionVars,
                  countdown_end_time, windowVars, rx, wire, DURATION, workerVars >>

\* manual_submit on the main thread: Submit is pressed with the boxes as
\* they are
BoxSubmit ==
  /\ pc = "idle" /\ open /\ Commands < MaxCmds
  /\ ManualSubmitOf(rpm_box, time_box)
  /\ UNCHANGED << envVars, tickLog, now, sessionVars, countdown_text,
                  windowVars, rx, wire, DURATION, workerVars >>

\* manual_submit, lines 137-143
ManualWrite ==
  /\ pc = "ms_write"
  /\ \E ok \in WriteOutcomes :
       wire' = Append(wire, WriteCall(m_cmd, ok, "manual", sess))
  /\ m_cmd' = << >>
  /\ pc' = "idle"
  /\ UNCHANGED << envVars, tickLog, now, sessionVars, countdown_end_time, countdown_text,
                  windowVars, rx, DURATION, workerVars >>

(***************************************************************************)
(* Voice requests: voice_input starts a thread that runs                   *)
(* voice_input_async.                                                      *)
(***************************************************************************)
Idle(w) == wpc[w] = "idle"

\* the thread ends: its locals are gone
EndWorker(w) ==
  /\ wpc' = [wpc EXCEPT ![w] = "idle"]
  /\ wout' = [wout EXCEPT ![w] = << >>]
  /\ wresp' = [wresp EXCEPT ![w] = << >>]
  /\ wdata' = [wdata EXCEPT ![w] = << >>]
  /\ worig' = [worig EXCEPT ![w] = 0]
  /\ wsess' = [wsess EXCEPT ![w] = 0]

\* voice_input, line 199: the button callback starts a new thread, whatever
\* threads are already running (the new thread takes the lowest free slot)
VoiceStart ==
  /\ pc = "idle" /\ open /\ Commands < MaxCmds
  /\ \E w \in Workers :
       /\ Idle(w) /\ \A v \in Workers : Idle(v) => w <= v
       /\ wpc' = [wpc EXCEPT ![w] = "listening"]
       /\ wsess' = [wsess EXCEPT ![w] = sess]
  /\ UNCHANGED << envVars, tickLog, now, mainVars, sessionVars, countdown_end_time, windowVars,
                  rx, wire, DURATION, wout, wresp, wdata, worig >>

\* voice_input_async, lines 150-178 and 190-196: the trigger sentence is
\* heard, the extraction call returns its (stripped) output, the question is
\* spoken and the listening duration is shortened.  Everything before the
\* write of v2t.DURATION is local to the thread.
VoiceHeardFrom(w, outs) ==
  /\ wpc[w] = "listening"
  /\ \E raw \in outs :
       LET output == Strip(raw)
       IN  IF output # << >>
           THEN /\ wpc' = [wpc EXCEPT ![w] = "confirming"]
                /\ wout' = [wout EXCEPT ![w] = output]
                /\ worig' = [worig EXCEPT ![w] = DURATION]
                /\ DURATION' = CONFIRM_DURATION
                /\ UNCHANGED << wresp, wdata, wsess >>
           ELSE /\ EndWorker(w)
                /\ UNCHANGED DURATION
  /\ UNCHANGED << envVars, tickLog, now, mainVars, sessionVars, countdown_end_time,
                  windowVars, rx, wire >>

VoiceHeard(w) == VoiceHeardFrom(w, Outputs)

\* the same with the wider choice of outputs
CmdHeard(w) == VoiceHeardFrom(w, CmdOutputs)

\* recognize_speech returns the transcription in lower case
recognize_speech(transcription) == Lower(transcription)

\* Affirmative as "anything but a no"
Affirmative_NotNo(response) == ~Contains(Lower(response), <<"n", "o">>)

\* the test of line 183: `"yes" in response.lower()`
Affirmative(response) == Contains(Lower(response), <<"y", "e", "s">>)

\* voice_input_async, lines 179-189: the response is recorded, the duration
\* is put back, and the command is sent only on "yes"
ConfirmHeard(w) ==
  /\ wpc[w] = "confirming"
  /\ DURATION' = worig[w]
  /\ \E said \in Responses :
       LET response == recognize_speech(said)
       IN  IF Affirmative(response)
           THEN /\ wpc' = [wpc EXCEPT ![w] = "sending"]
                /\ wresp' = [wresp EXCEPT ![w] = response]
                /\ UNCHANGED << wout, wdata, worig, wsess >>
           ELSE EndWorker(w)
  /\ UNCHANGED << envVars, tickLog, now, mainVars, sessionVars, countdown_end_time,
                  windowVars, rx, wire >>

\* SendArm setting the deadline of a text before it looks for the RPM
SendArm_TimerFirst(w) ==
  /\ wpc[w] = "sending"
  /\ LET p == parse_command(wout[w])
     IN  IF ~p.raised /\ IsSome(p.rpm)
         THEN /\ wdata' = [wdata EXCEPT ![w] = WireLine(Val(p.rpm), p.timer)]
              /\ countdown_end_time' = Arm(p.timer, now)
              /\ wpc' = [wpc EXCEPT ![w] = "writing"]
              /\ UNCHANGED << wout, wresp, worig, wsess >>
         ELSE /\ EndWorker(w)
              /\ countdown_end_time' = Arm(p.timer, now)
  /\ UNCHANGED << envVars, tickLog, now, mainVars, sessionVars, windowVars, rx, wire,
                  DURATION >>

\* send_command, lines 105-112 and 120-121, on the worker thread: parse, set
\* or clear the deadline, build the line
SendArm(w) ==
  /\ wpc[w] = "sending"
  /\ LET p == parse_command(wout[w])
     IN  IF ~p.raised /\ IsSome(p.rpm)
         THEN /\ wdata' = [wdata EXCEPT ![w] = WireLine(Val(p.rpm), p.timer)]
              /\ countdown_end_time' = Arm(p.timer, now)
              /\ wpc' = [wpc EXCEPT ![w] = "writing"]
              /\ UNCHANGED << wout, wresp, worig, wsess >>
         ELSE \* invalid command, or the thread dies of the exception
              /\ EndWorker(w)
              /\ UNCHANGED countdown_end_time
  /\ UNCHANGED << envVars, tickLog, now, mainVars, sessionVars, windowVars, rx, wire,
                  DURATION >>

\* SendWrite with the request left pending after its write
SendWrite_Again(w) ==
  /\ wpc[w] = "writing"
  /\ \E ok \in WriteOutcomes :
       wire' = Append(wire, WriteCall(wdata[w], ok, "voice", wsess[w]))
  /\ UNCHANGED << envVars, tickLog, now, mainVars, sessionVars, countdown_end_time,
                  windowVars, rx, DURATION, workerVars >>

\* send_command, lines 114-119, on the worker thread: the write on the
\* global `ser`, which is the port of whatever session runs now
SendWrite(w) ==
  /\ wpc[w] = "writing"
  /\ \E ok \in WriteOutcomes :
       wire' = Append(wire, WriteCall(wdata[w], ok, "voice", wsess[w]))
  /\ EndWorker(w)
  /\ UNCHANGED << envVars, tickLog, now, mainVars, sessionVars, countdown_end_time,
                  windowVars, rx, DURATION >>

(***************************************************************************)
(* Sessions (run_session and the loop of __main__) and the environment.    *)
(***************************************************************************)
\* StartSession without the reset of the deadline
StartSession_KeepDeadline ==
  /\ pc = "closed" /\ sess < MaxSessions
  /\ sess' = sess + 1
  /\ SetWindow([t |-> << >>, rpm |-> << >>, ma |-> << >>, set |-> << >>,
                pwm |-> << >>, perr |-> << >>])
  /\ start_time' = now
  /\ reads' = << >> /\ pops' = 0
  /\ \E opened \in BOOLEAN :
       IF opened
       THEN /\ open' = TRUE
            /\ pc' = "idle"
            /\ wire' = << >>
            /\ rx' = << >>
            /\ countdown_text' = None
       ELSE UNCHANGED << open, pc, wire, rx, countdown_text >>
  /\ UNCHANGED << envVars, now, m_cmd, countdown_end_time, DURATION, workerVars >>

\* run_session, lines 243-256: the globals are reset and the port is opened
StartSession ==
  /\ pc = "closed" /\ sess < MaxSessions
  /\ sess' = sess + 1
  /\ countdown_end_time' = None
  /\ SetWindow([t |-> << >>, rpm |-> << >>, ma |-> << >>, set |-> << >>,
                pwm |-> << >>, perr |-> << >>])
  /\ start_time' = now
  /\ reads' = << >> /\ pops' = 0
  /\ \E opened \in BOOLEAN :
       IF opened
       THEN /\ open' = TRUE
            /\ pc' = "idle"
            /\ wire' = << >>
            /\ rx' = << >>
            /\ countdown_text' = None
       ELSE \* "Error opening serial port": run_session returns
            UNCHANGED << open, pc, wire, rx, countdown_text >>
  /\ UNCHANGED << envVars, now, m_cmd, DURATION, workerVars >>

\* run_session, lines 409-410: the window is closed, plt.show() returns and
\* the port is closed; the worker threads keep running
CloseSession ==
  /\ pc = "idle" /\ open
  /\ open' = FALSE
  /\ pc' = "closed"
  /\ UNCHANGED << envVars, tickLog, now, sess, start_time, countdown_end_time,
                  countdown_text, m_cmd, windowVars, rx, wire,
                  DURATION, workerVars >>

\* __main__, lines 421-423: the program ends and its daemon threads with it
ExitProgram ==
  /\ pc = "closed"
  /\ pc' = "exited"
  /\ wpc' = [w \in Workers |-> "idle"]
  /\ wout' = [w \in Workers |-> << >>]
  /\ wresp' = [w \in Workers |-> << >>]
  /\ wdata' = [w \in Workers |-> << >>]
  /\ worig' = [w \in Workers |-> 0]
  /\ wsess' = [w \in Workers |-> 0]
  /\ UNCHANGED << envVars, tickLog, now, sessionVars, countdown_end_time, countdown_text,
                  m_cmd, windowVars, rx, wire, DURATION >>

\* time passes
Advance ==
  /\ pc # "exited" /\ now < MaxTime
  /\ now' = now + 1
  /\ UNCHANGED << envVars, tickLog, mainVars, sessionVars, countdown_end_time, windowVars,
                  rx, wire, DURATION, workerVars >>

\* number of complete lines in the buffer
NLines(buf) == Cardinality({i \in 1..Len(buf) : buf[i] = "\n"})

\* the controller sends a telemetry line; the transport delivers it whole or
\* its first part now and the rest later (the buffer is read at the start of
\* a tick only, so arrivals are taken between ticks)
Arrive ==
  /\ pc = "idle" /\ open
  /\ IF inflight = << >>
     THEN /\ NLines(rx) + Len(t_data) < MaxLines
          /\ \E line \in SerialLines : \E k \in Cuts(line) :
               /\ rx' = rx \o Slice(line, 1, k)
               /\ inflight' = Slice(line, k + 1, Len(line))
     ELSE /\ rx' = rx \o inflight
          /\ inflight' = << >>
  /\ UNCHANGED << now, mainVars, sessionVars, countdown_end_time, windowVars,
                  tickLog, cmd_text, cmd_parsed, rpm_box, time_box, wire, DURATION,
                  workerVars >>

Tick == TickDrain \/ TickEvict \/ TickTest \/ TickRemaining \/ TickStop \/ TickClear

\* The console without telemetry traffic: commands, countdown, voice workers
\* and sessions.
Next ==
  \/ TickDrain \/ TickEvict \/ TickTest \/ TickRemaining \/ TickStop \/ TickClear
  \/ ManualSubmit \/ ManualWrite
  \/ VoiceStart
  \/ \E w \in Workers : VoiceHeard(w)
  \/ \E w \in Workers : ConfirmHeard(w)
  \/ \E w \in Workers : SendArm(w)
  \/ \E w \in Workers : SendWrite(w)
  \/ StartSession \/ CloseSession \/ ExitProgram
  \/ Advance

Spec == Init /\ [][Next]_vars

(***************************************************************************)
(* test.py: the console as one script with one thread.  The port is opened *)
(* when the script starts; update, manual_submit and voice_input all run   *)
(* on the thread of the window, so a handler runs to its end before the    *)
(* next tick.  The handler's locals `output` and `original_duration` are   *)
(* kept in slot 1 of wout and worig: this script starts no worker.         *)
(***************************************************************************)
TestVoicePositions == {"tv_listening", "tv_confirming"}

\* commands of the script so far
TestCommands ==
  Cardinality({i \in 1..Len(wire) : wire[i].src # "tick"})
  + (IF pc \in TestVoicePositions THEN 1 ELSE 0)

\* test.py, lines 374-387: the port is opened and the globals are set; when
\* serial.Serial raises, the script ends
TestOpen ==
  /\ pc = "closed" /\ sess = 0
  /\ sess' = 1
  /\ start_time' = now
  /\ \E opened \in BOOLEAN :
       IF opened THEN open' = TRUE /\ pc' = "idle"
       ELSE open' = FALSE /\ pc' = "exited"
  /\ UNCHANGED << envVars, tickLog, now, countdown_end_time, countdown_text, m_cmd,
                  windowVars, rx, wire, DURATION, workerVars >>

\* test.py, lines 645-646: plt.show() returns and the port is closed
TestClose ==
  /\ pc = "idle" /\ open
  /\ open' = FALSE
  /\ pc' = "exited"
  /\ UNCHANGED << envVars, tickLog, now, sess, start_time, countdown_end_time,
                  countdown_text, m_cmd, windowVars, rx, wire, DURATION, workerVars >>

\* test.py manual_submit, lines 454-471: the deadline is set or cleared, then
\* the line is written; a failed write raises out of the callback (only
\* ValueError is caught)
TestManualSubmit ==
  /\ pc = "idle" /\ open /\ TestCommands < MaxCmds
  /\ \E rb \in RpmTexts, tb \in TimeTexts :
       LET rpm_text == Strip(rb)
           time_text == Strip(tb)
           rpm_val == PyInt(rpm_text)
           timer_p == PyInt(time_text)
           timer_val == IF time_text # << >> THEN Some(timer_p.val) ELSE None
       IN  IF rpm_val.ok /\ (time_text = << >> \/ timer_p.ok)
           THEN /\ countdown_end_time' = Arm(timer_val, now)
                /\ \E ok \in WriteOutcomes :
                     /\ wire' = Append(wire, WriteCall(WireLine(rpm_val.val, timer_val),
                                                       ok, "manual", sess))
                     /\ pc' = IF ok THEN "idle" ELSE "raised"
           ELSE UNCHANGED << countdown_end_time, wire, pc >>
  /\ UNCHANGED << envVars, tickLog, now, countdown_text, m_cmd, sessionVars,
                  windowVars, rx, DURATION, workerVars >>

\* test.py voice_input, lines 473-479: the button callback itself calls
\* v2t.listen_for_trigger(), which returns when a trigger sentence is heard
TestVoiceInput ==
  /\ pc = "idle" /\ open /\ TestCommands < MaxCmds
  /\ pc' = "tv_listening"
  /\ UNCHANGED << envVars, tickLog, now, open, sess, start_time, countdown_end_time,
                  countdown_text, m_cmd, windowVars, rx, wire, DURATION, workerVars >>

\* test.py voice_input, lines 480-513: the sentence is heard, the extraction
\* call returns, the question is spoken and the listening duration is set
\* for the confirmation
TestVoiceHeard ==
  /\ pc = "tv_listening"
  /\ \E raw \in Outputs :
       wout' = [wout EXCEPT ![1] = Strip(raw)]
  /\ worig' = [worig EXCEPT ![1] = DURATION]
  /\ DURATION' = CONFIRM_DURATION
  /\ pc' = "tv_confirming"
  /\ UNCHANGED << envVars, tickLog, now, open, sess, start_time, countdown_end_time,
                  countdown_text, m_cmd, windowVars, rx, wire, wpc, wresp, wdata,
                  wsess >>

\* test.py voice_input, lines 514-529, with send_command, lines 431-451: the
\* response is recorded, the duration is put back and on "yes" the command
\* is parsed, armed and written; then the callback returns
TestConfirmHeard ==
  /\ pc = "tv_confirming"
  /\ DURATION' = worig[1]
  /\ \E said \in Responses :
       LET response == recognize_speech(said)
           p == parse_command(wout[1])
       IN  IF Affirmative(response) /\ ~p.raised /\ IsSome(p.rpm)
           THEN /\ countdown_end_time' = Arm(p.timer, now)
                /\ \E ok \in WriteOutcomes :
                     /\ wire' = Append(wire, WriteCall(WireLine(Val(p.rpm), p.timer),
                                                       ok, "voice", sess))
                     /\ pc' = IF ok THEN "idle" ELSE "raised"
           ELSE /\ UNCHANGED << countdown_end_time, wire >>
                /\ pc' = IF Affirmative(response) /\ p.raised THEN "raised" ELSE "idle"
  /\ wout' = [wout EXCEPT ![1] = << >>]
  /\ worig' = [worig EXCEPT ![1] = 0]
  /\ UNCHANGED << envVars, tickLog, now, open, sess, start_time, countdown_text,
                  m_cmd, windowVars, rx, wpc, wresp, wdata, wsess >>

\* test.py update, lines 614-617: the stop write is not guarded; when it
\* raises, the tick ends there and the deadline stays (failures are counted
\* up to MaxStops)
TestTickStop ==
  /\ pc = "cd_stop"
  /\ \E ok \in (IF Cardinality({i \in 1..Len(wire) : wire[i].src = "tick"}) < MaxStops
                THEN WriteOutcomes ELSE {TRUE}) :
       /\ wire' = Append(wire, WriteCall(StopLine, ok, "tick", sess))
       /\ countdown_end_time' = IF ok THEN None ELSE countdown_end_time
       /\ pc' = IF ok THEN "idle" ELSE "raised"
  /\ EndTick
  /\ UNCHANGED << envVars, now, sessionVars, countdown_text, m_cmd, windowVars,
                  rx, DURATION, workerVars >>

\* test.py: an exception has left update or a button callback; the event
\* loop of the window reports it.  What the loop does then is the GUI
\* backend's matter: the model follows the outcome in which it goes on.
TestUnwind ==
  /\ pc = "raised"
  /\ pc' = "idle"
  /\ UNCHANGED << envVars, tickLog, now, open, sess, start_time, countdown_end_time,
                  countdown_text, m_cmd, windowVars, rx, wire, DURATION, workerVars >>

\* test.py: the ticks of FuncAnimation (line 623; update's drain, eviction
\* and countdown test are those of interface.py) and the two buttons
TestNext ==
  \/ TestOpen \/ TestClose
  \/ TickDrain \/ TickEvict \/ TickTest \/ TickRemaining \/ TestTickStop
  \/ TestManualSubmit
  \/ TestVoiceInput \/ TestVoiceHeard \/ TestConfirmHeard
  \/ TestUnwind
  \/ Advance

TestSpec == Init /\ [][TestNext]_vars

(***************************************************************************)
(* The drain loop of update read by read: `while ser.in_waiting` with the  *)
(* readline call that may raise (lines 316-321).                           *)
(***************************************************************************)
\* update is called: the loop is about to test ser.in_waiting
LoopBegin ==
  /\ pc = "idle" /\ open
  /\ pc' = "rd_test"
  /\ reads' = << >> /\ pops' = 0
  /\ UNCHANGED << envVars, now, sessionVars, countdown_end_time, countdown_text,
                  m_cmd, windowVars, rx, wire, DURATION, workerVars >>

\* line 316: `while ser.in_waiting`
LoopTest ==
  /\ pc = "rd_test"
  /\ pc' = IF rx # << >> THEN "rd_read" ELSE "evict"
  /\ UNCHANGED << envVars, tickLog, now, sessionVars, countdown_end_time,
                  countdown_text, m_cmd, windowVars, rx, wire, DURATION, workerVars >>

\* lines 317-339: one readline call and what is done with its result.  The
\* call returns the next line, or it raises; a call that raises has taken
\* the bytes it read before the error (here: the line or nothing), the
\* message is printed and `continue` goes back to the test of the loop.
LoopRead ==
  /\ pc = "rd_read"
  /\ \E raised \in BOOLEAN :
       IF raised
       THEN /\ \E k \in {0, ReadLen(rx)} : rx' = Slice(rx, k + 1, Len(rx))
            /\ UNCHANGED << windowVars, reads >>
       ELSE /\ SetWindow(PushLine(Window, Slice(rx, 1, ReadLen(rx)), now - start_time))
            /\ rx' = Slice(rx, ReadLen(rx) + 1, Len(rx))
            /\ reads' = Append(reads, Slice(rx, 1, ReadLen(rx)))
  /\ pc' = "rd_test"
  /\ UNCHANGED << envVars, pops, now, sessionVars, countdown_end_time, countdown_text,
                  m_cmd, wire, DURATION, workerVars >>

LoopNext ==
  \/ StartSession \/ CloseSession
  \/ Arrive
  \/ LoopBegin \/ LoopTest \/ LoopRead
  \/ TickEvict \/ TickTest

LoopSpec == Init /\ [][LoopNext]_vars

\* the thread that is in the readline call goes on
ReadGoesOn == []<>~(pc = "rd_read") \/ []<><<LoopRead>>_vars

\* the main thread runs update to its end once it has been called
LoopLive ==
  LoopSpec /\ WF_vars(LoopTest) /\ ReadGoesOn /\ WF_vars(TickEvict) /\ WF_vars(TickTest)

(***************************************************************************)
(* One session of interface.py with the wider choice of command texts:     *)
(* what the two submit paths and the expiry write.                         *)
(***************************************************************************)
\* the operator asks for one thing at a time: Voice Input is pressed when no
\* request is under way
CmdVoiceStart == (\A w \in Workers : Idle(w)) /\ VoiceStart

CmdNext ==
  \/ StartSession
  \/ TickDrain \/ TickEvict \/ TickTest \/ TickRemaining \/ TickStop \/ TickClear
  \/ TypeBoxes \/ BoxSubmit \/ ManualWrite
  \/ CmdVoiceStart
  \/ \E w \in Workers : CmdHeard(w)
  \/ \E w \in Workers : ConfirmHeard(w)
  \/ \E w \in Workers : SendArm(w)
  \/ \E w \in Workers : SendWrite(w)
  \/ Advance

CmdSpec == Init /\ [][CmdNext]_vars

(***************************************************************************)
(* parse_command as a function of its text.                                *)
(***************************************************************************)
ParseInit == InitProgram /\ cmd_text \in ParseTexts

\* one call parse_command(cmd_text)
Parse ==
  /\ cmd_parsed = None
  /\ cmd_parsed' = Some(parse_command(cmd_text))
  /\ UNCHANGED << now, mainVars, sessionVars, countdown_end_time, windowVars,
                  rx, inflight, tickLog, cmd_text, rpm_box, time_box, wire, DURATION,
                  workerVars >>

ParseNext == Parse

ParseSpec == ParseInit /\ [][ParseNext]_vars

(***************************************************************************)
(* The telemetry session: lines arrive while ticks run, over a time span   *)
(* longer than the window.                                                 *)
(***************************************************************************)
\* time passes, in steps that reach beyond the 60 s of the window
WinAdvance ==
  /\ pc # "exited" /\ now + WinStep <= WinMaxTime
  /\ now' = now + WinStep
  /\ UNCHANGED << envVars, tickLog, mainVars, sessionVars, countdown_end_time, windowVars,
                  rx, wire, DURATION, workerVars >>

\* No command is given in these sessions, so the countdown part of the tick is
\* the test of line 362 alone.
WinNext ==
  \/ TickDrain \/ TickEvict \/ TickTest
  \/ Arrive
  \/ StartSession \/ CloseSession
  \/ WinAdvance

WindowSpec == Init /\ [][WinNext]_vars

\* FuncAnimation(fig, update, interval=100): while the window is open the
\* timer calls update again and again.  This is weak fairness of TickDrain,
\* with its enabling condition pc = "idle" /\ open written out.
TickBegins == []<>~(pc = "idle" /\ open) \/ []<><<TickDrain>>_vars

\* ... and a call of update that has begun runs to its end
WindowLive == WindowSpec /\ TickBegins /\ WF_vars(TickEvict) /\ WF_vars(TickTest)

(***************************************************************************)
(* Sessions one after the other, with telemetry and manual commands: what  *)
(* a session leaves behind and what the next one starts with.              *)
(***************************************************************************)
\* a line arrives when none is stored or waiting: one frame is enough to
\* tell a window that was emptied from one that was kept
SessionArrive == Len(t_data) = 0 /\ NLines(rx) = 0 /\ Arrive

SessionNext ==
  \/ StartSession \/ CloseSession
  \/ SessionArrive
  \/ TickDrain \/ TickEvict \/ TickTest \/ TickRemaining \/ TickStop \/ TickClear
  \/ ManualSubmit \/ ManualWrite
  \/ Advance \/ WinAdvance

SessionSpec == Init /\ [][SessionNext]_vars

(***************************************************************************)
(* The countdown on a clock finer than a second: time.time() is a float,   *)
(* and the label shows int(remaining).  Here `now` and the deadline count  *)
(* 1/SubSec s; no line arrives, so the tick is its countdown part.         *)
(***************************************************************************)
\* WholeSeconds rounding up
WholeSeconds_Up(r) == (r + SubSec - 1) \div SubSec

\* int(remaining) of line 373, remaining > 0 in 1/SubSec s
WholeSeconds(r) == r \div SubSec

\* a command of `timer` seconds, or of none, is given at the time `now`:
\* countdown_end_time = time.time() + timer, and the line is written
CountdownArm ==
  /\ pc = "idle" /\ open /\ Commands < MaxCmds
  /\ \E timer \in {None, Some(1), Some(2)}, ok \in WriteOutcomes :
       /\ countdown_end_time' =
            Arm(IF IsSome(timer) THEN Some(Val(timer) * SubSec) ELSE None, now)
       /\ wire' = Append(wire, WriteCall(WireLine(5, timer), ok, "manual", sess))
  /\ UNCHANGED << envVars, tickLog, now, mainVars, sessionVars, windowVars,
                  rx, DURATION, workerVars >>

\* 1/SubSec s passes
CountdownAdvance ==
  /\ pc = "idle" /\ now < MaxFine
  /\ now' = now + 1
  /\ UNCHANGED << envVars, tickLog, mainVars, sessionVars, countdown_end_time, windowVars,
                  rx, wire, DURATION, workerVars >>

\* update with nothing waiting on the port and an empty window: lines 362-375
CountdownTick ==
  /\ pc = "idle" /\ open /\ rx = << >> /\ t_data = << >>
  /\ IF countdown_end_time = None
     THEN /\ countdown_text' = None
          /\ UNCHANGED << countdown_end_time, wire >>
     ELSE LET remaining == Val(countdown_end_time) - now
          IN  IF IsExpired(remaining)
              THEN /\ countdown_text' = None
                   /\ \E ok \in WriteOutcomes :
                        wire' = Append(wire, WriteCall(StopLine, ok, "tick", sess))
                   /\ countdown_end_time' = None
              ELSE /\ countdown_text' = Some(WholeSeconds(remaining))
                   /\ UNCHANGED << countdown_end_time, wire >>
  /\ UNCHANGED << envVars, tickLog, now, pc, m_cmd, sessionVars, windowVars,
                  rx, DURATION, workerVars >>

CountdownNext == StartSession \/ CountdownArm \/ CountdownAdvance \/ CountdownTick

CountdownSpec == Init /\ [][CountdownNext]_vars

(***************************************************************************)
(* A command that is one number, of up to 16 digits.  Python's int has no  *)
(* limit, its float has a mantissa of 53 bits; numbers here are kept as    *)
(* their decimal digits, so that sizes around 2^53 can be told apart.      *)
(***************************************************************************)
\* str(int(s)) for a run of digits s: the digits without leading zeros
RECURSIVE BigStr(_)
BigStr(s) == IF Len(s) > 1 /\ s[1] = "0" THEN BigStr(Tail(s)) ELSE s

\* str(int(float(s))) for a run of at most 16 digits (so s < 2^54).  float()
\* is exact below 2^53 = 9007199254740992.  From there to 2^54 the doubles
\* are the even integers, and an odd n lies halfway between n - 1 and n + 1:
\* the tie goes to the one with the even mantissa, the multiple of 4.
BigIntOfFloat(s) ==
  LET n == BigStr(s)
      TwoTo53 == << "9","0","0","7","1","9","9","2","5","4","7","4","0","9","9","2" >>
      below == \/ Len(n) < Len(TwoTo53)
               \/ \E i \in 1..Len(n) :
                    /\ DigitVal(n[i]) < DigitVal(TwoTo53[i])
                    /\ \A j \in 1..(i - 1) : n[j] = TwoTo53[j]
      last == DigitVal(n[Len(n)])
      RECURSIVE Succ(_)
      Succ(t) ==
        IF t = << >> THEN << "1" >>
        ELSE IF t[Len(t)] = "9" THEN Succ(SubSeq(t, 1, Len(t) - 1)) \o << "0" >>
        ELSE SubSeq(t, 1, Len(t) - 1) \o << DigitChar(DigitVal(t[Len(t)]) + 1) >>
  IN  IF below \/ last % 2 = 0 THEN n
      ELSE IF DigitsToNat(SubSeq(n, Len(n) - 1, Len(n))) % 4 = 1
           THEN SubSeq(n, 1, Len(n) - 1) \o << DigitChar(last - 1) >>
           ELSE Succ(n)

\* the program is started and a number is given as the RPM: a small one, or
\* one of the twenty around 2^53 = 9007199254740992
LoneInit ==
  /\ InitProgram
  /\ cmd_text \in
       { NatToDigits(n) : n \in 0..39 }
         \cup { << "0", "0" >> \o NatToDigits(n) : n \in 0..9 }
         \cup { << "9","0","0","7","1","9","9","2","5","4","7","4","0","9" >>
                  \o NatToDigits(n) : n \in 80..99 }

\* the number cmd_text is given on both paths and no duration: m_cmd is the
\* line of manual_submit (lines 125-134: cmd = f"{int(rpm_text)}\n"), wdata[1]
\* the line of send_command (lines 105-111), where parse_command finds none of
\* its patterns in a run of digits and returns int(float(command)), None
LoneSubmit ==
  /\ m_cmd = << >>
  /\ m_cmd' = BigStr(Strip(cmd_text)) \o << "\n" >>
  /\ wdata' = [wdata EXCEPT ![1] = BigIntOfFloat(Strip(cmd_text)) \o << "\n" >>]
  /\ UNCHANGED << now, pc, countdown_text, sessionVars, countdown_end_time, windowVars,
                  rx, inflight, tickLog, cmd_text, cmd_parsed, rpm_box, time_box, wire,
                  DURATION, wpc, wout, wresp, worig, wsess >>

LoneSpec == LoneInit /\ [][LoneSubmit]_vars

(***************************************************************************)
(* voice_to_text.listen_for_trigger: record and transcribe until the       *)
(* trigger word is heard.  The thread's position is wpc[1], the text of    *)
(* the latest recording cmd_text, the returned sentence wout[1].           *)
(***************************************************************************)
TRIGGER_WORD == << "J", "e", "f", "f" >>

\* HasTrigger looking at every word of the text
HasTrigger_AnyWord(text, trigger_word) ==
  \E i \in 1..(Len(text) - Len(trigger_word) + 1) :
    /\ SubSeq(text, i, i + Len(trigger_word) - 1) = trigger_word
    /\ (i = 1 \/ text[i - 1] \notin {"a", "e", "f", "h", "j", "s", "y"})
    /\ (i + Len(trigger_word) > Len(text)
          \/ text[i + Len(trigger_word)] \notin {"a", "e", "f", "h", "j", "s", "y"})

\* lines 53-55: words = [word.strip(string.punctuation) for word in
\* text.split()], any(word == trigger_word for word in words[:20])
\* (string.punctuation but for the grave accent, which no text here holds)
HasTrigger(text, trigger_word) ==
  LET punctuation == { "!", "\"", "#", "$", "%", "&", "'", "(", ")", "*", "+", ",",
                       "-", ".", "/", ":", ";", "<", "=", ">", "?", "@", "[", "\\",
                       "]", "^", "_", "{", "|", "}", "~" }
      \* where the words of text.split() begin
      starts == { i \in 1..Len(text) :
                    text[i] \notin Space /\ (i = 1 \/ text[i - 1] \in Space) }
      first20 == { i \in starts : Cardinality({ k \in starts : k < i }) < 20 }
      \* the word that begins at i
      WordFrom(i) == SubSeq(text, i, i + RunLen(text, i, {text[j] : j \in 1..Len(text)} \ Space) - 1)
      \* word.strip(string.punctuation)
      Stripped(word) ==
        LET keep == { j \in 1..Len(word) : word[j] \notin punctuation }
        IN  IF keep = {} THEN << >>
            ELSE SubSeq(word, CHOOSE j \in keep : \A k \in keep : j <= k,
                              CHOOSE j \in keep : \A k \in keep : j >= k)
  IN  \E i \in first20 : Stripped(WordFrom(i)) = trigger_word

\* what Whisper may give for one recording: up to 20 words, then a word that
\* is or is not the trigger word, then nothing or more words
Transcriptions ==
  LET Fillers(n) == [i \in 1..(2 * n) |-> IF i % 2 = 1 THEN "a" ELSE " "]
      forms == { << "J","e","f","f" >>, << "j","e","f","f","," >>,
                 << "(","J","E","F","F",")","!" >>, << "j","e","f","f","s" >>,
                 << "'","j","e","f","f","'" >>, << "h","e","y",",","j","e","f","f" >>,
                 << "J","e","f","f","'","s" >>, << "j","e"," ","f","f" >>, << "-" >> }
      tails == { << >>, << " ","s","a","y" >>, << " ","-"," ","J","e","f","f","." >> }
  IN  { pre \o Fillers(n) \o f \o t \o post :
          pre \in {<< >>, << " " >>}, n \in {0, 1, 18, 19, 20}, f \in forms, t \in tails,
          post \in {<< >>, << "\n" >>} }

\* voice_input_async, line 150: listen_for_trigger is called
ListenStart ==
  /\ wpc[1] = "idle"
  /\ wpc' = [wpc EXCEPT ![1] = "recording"]
  /\ UNCHANGED << now, mainVars, sessionVars, countdown_end_time, windowVars, rx, inflight,
                  tickLog, cmd_text, cmd_parsed, rpm_box, time_box, wire, DURATION,
                  wout, wresp, wdata, worig, wsess >>

\* line 51: text = recognize_speech().strip()
ListenRecord ==
  /\ wpc[1] = "recording"
  /\ \E raw \in Transcriptions : cmd_text' = Strip(recognize_speech(raw))
  /\ wpc' = [wpc EXCEPT ![1] = "matching"]
  /\ UNCHANGED << now, mainVars, sessionVars, countdown_end_time, windowVars, rx, inflight,
                  tickLog, cmd_parsed, rpm_box, time_box, wire, DURATION,
                  wout, wresp, wdata, worig, wsess >>

\* lines 49 and 53-62: return the text, or sleep and record again
ListenTest ==
  /\ wpc[1] = "matching"
  /\ IF HasTrigger(cmd_text, Lower(TRIGGER_WORD))
     THEN /\ wout' = [wout EXCEPT ![1] = cmd_text]
          /\ wpc' = [wpc EXCEPT ![1] = "heard"]
     ELSE /\ wpc' = [wpc EXCEPT ![1] = "recording"]
          /\ UNCHANGED wout
  /\ UNCHANGED << now, mainVars, sessionVars, countdown_end_time, windowVars, rx, inflight,
                  tickLog, cmd_text, cmd_parsed, rpm_box, time_box, wire, DURATION,
                  wresp, wdata, worig, wsess >>

ListenSpec == Init /\ [][ListenStart \/ ListenRecord \/ ListenTest]_vars

(***************************************************************************)
(* Reading the log of write calls.                                         *)
(***************************************************************************)
Last(s) == s[Len(s)]

\* the duration field of a wire line "<rpm>,<duration>\n", None for "<rpm>\n"
DurationOf(line) ==
  LET commas == {i \in 1..Len(line) : line[i] = ","}
  IN  IF commas = {} THEN None
      ELSE LET c == CHOOSE i \in commas : TRUE
           IN  Some(PyInt(Slice(line, c + 1, Len(line))).val)

CmdIdx == {i \in 1..Len(wire) : wire[i].src # "tick"}
StopIdx == {i \in 1..Len(wire) : wire[i].src = "tick"}
IsTimedCmd(e) == e.src # "tick" /\ IsSome(DurationOf(e.data))

\* no submit is between setting the deadline and writing its line
NoSubmitUnderWay == pc # "ms_write" /\ \A w \in Workers : wpc[w] # "writing"

\* every call in the log was made by a thread of the running session
AllFresh == \A i \in 1..Len(wire) : wire[i].origin = sess

\* a step of the main thread
MainStep == pc' # pc

(***************************************************************************)
(* C1: after a command with duration d submitted at t0 and no other        *)
(* command, the first tick with now >= t0 + d makes exactly one stop write  *)
(* ("0\n") and clears the deadline; later ticks find the countdown idle and *)
(* write no stop.                                                          *)
(***************************************************************************)
C1_OneCommand ==
  (open /\ NoSubmitUnderWay /\ AllFresh /\ Cardinality(CmdIdx) = 1
     /\ \A i \in CmdIdx : IsTimedCmd(wire[i]))
  => /\ Cardinality(StopIdx) <= 1
     /\ (StopIdx = {} => IsSome(countdown_end_time))
     /\ (StopIdx # {} => (countdown_end_time = None \/ pc = "cd_clear"))
     /\ \A i \in StopIdx : wire[i].data = StopLine

C1_TickSteps ==
  /\ (pc = "cd_remaining" /\ MainStep /\ IsSome(countdown_end_time)
        /\ now >= Val(countdown_end_time))
     => pc' = "cd_stop"
  /\ (pc = "cd_remaining" /\ MainStep /\ IsSome(countdown_end_time)
        /\ now < Val(countdown_end_time))
     => (pc' = "idle" /\ wire' = wire /\ countdown_end_time' = countdown_end_time)
  /\ (pc = "cd_stop" /\ MainStep)
     => /\ pc' = "cd_clear"
        /\ Len(wire') = Len(wire) + 1
        /\ Last(wire').data = StopLine /\ Last(wire').src = "tick"
        /\ SubSeq(wire', 1, Len(wire)) = wire
  /\ (pc = "cd_clear" /\ MainStep) => (pc' = "idle" /\ countdown_end_time' = None)
  /\ (pc = "cd_test" /\ MainStep /\ countdown_end_time = None)
     => (pc' = "idle" /\ wire' = wire /\ countdown_end_time' = None
         /\ countdown_text' = None)
  /\ (Len(wire') > Len(wire) /\ Last(wire').src = "tick" /\ open') => pc = "cd_stop"

\* C1: with one timed command in the session the log holds at most one stop
\* call, made when now >= deadline, after which the deadline is None; and every
\* tick step does what the expiry rule says.
C1_ExpiryStopsOnce == []C1_OneCommand /\ [][C1_TickSteps]_vars

\* one timed command, its deadline passed, the tick wrote one stop and left
\* the countdown idle
C1_Witness ==
  /\ open /\ Len(wire) = 2 /\ IsTimedCmd(wire[1]) /\ wire[1].ok
  /\ wire[2].src = "tick" /\ wire[2].ok /\ wire[2].data = StopLine
  /\ countdown_end_time = None /\ pc = "idle" /\ NoSubmitUnderWay

(***************************************************************************)
(* C2: when the write of the stop command fails at expiry, the countdown   *)
(* stays armed (so the stop is sent again on the next tick); the deadline  *)
(* is cleared only after a stop write succeeded.                           *)
(***************************************************************************)
\* the latest stop call of the tick
LastStopCall == wire[CHOOSE i \in StopIdx : \A j \in StopIdx : j <= i]

\* C2: the tick step that follows a failed stop write leaves the deadline as
\* it was.
C2_FailedStopKeepsDeadline ==
  [][(pc = "cd_clear" /\ pc' = "idle" /\ StopIdx # {} /\ ~LastStopCall.ok)
       => countdown_end_time' = countdown_end_time]_vars

(***************************************************************************)
(* C3: an armed deadline that no later command supersedes always gets its  *)
(* stop write: no state is reached in which the deadline has expired and   *)
(* is gone while the stop was not written.  Stated on the log: when the    *)
(* latest call on the port is a stop that failed and no submit is under    *)
(* way, the deadline is still armed.                                       *)
(***************************************************************************)
\* C3: a failed stop as the latest call on the port implies a deadline that is
\* still armed.
C3_NoExpiryWithoutStop ==
  (open /\ pc = "idle" /\ NoSubmitUnderWay /\ Len(wire) > 0
     /\ Last(wire).src = "tick" /\ ~Last(wire).ok)
  => IsSome(countdown_end_time)

(***************************************************************************)
(* C4: one deadline at most: a submit with duration d at time now leaves   *)
(* exactly the deadline now + d whatever was armed before, and two timed   *)
(* commands in a row are followed by one stop only.                        *)
(***************************************************************************)
\* with manual submits only, every stop call directly follows the line of a
\* timed command
C4_NoStacking ==
  (pc # "exited" /\ NoSubmitUnderWay /\ \A i \in 1..Len(wire) : wire[i].src # "voice")
  => \A i \in StopIdx : i > 1 /\ IsTimedCmd(wire[i - 1])

C4_SubmitSteps ==
  /\ (pc = "idle" /\ pc' = "ms_write" /\ IsSome(DurationOf(m_cmd')))
     => countdown_end_time' = Some(now + Val(DurationOf(m_cmd')))
  /\ \A w \in Workers :
       (wpc[w] = "sending" /\ wpc'[w] = "writing" /\ IsSome(DurationOf(wdata'[w])))
       => countdown_end_time' = Some(now + Val(DurationOf(wdata'[w])))

\* C4: every timed submit stores exactly now + d, and stops never stack.
C4_SingleDeadline == []C4_NoStacking /\ [][C4_SubmitSteps]_vars

\* two timed commands were submitted one after the other, the second while
\* the first deadline was pending, and one stop followed
C4_Witness ==
  /\ Len(wire) = 3 /\ IsTimedCmd(wire[1]) /\ IsTimedCmd(wire[2])
  /\ wire[1].src = "manual" /\ wire[3].src = "tick"
  /\ countdown_end_time = None /\ pc = "idle"

(***************************************************************************)
(* C5: a valid command without a duration disarms the countdown: after it  *)
(* no tick writes a stop until a command with a duration is submitted.     *)
(* The deadline is None from such a submit until the next submit with a    *)
(* duration, so the claim is: the submit stores None, and no stop is       *)
(* written while the deadline is None.                                     *)
(***************************************************************************)
C5_Steps ==
  /\ (pc = "idle" /\ pc' = "ms_write" /\ DurationOf(m_cmd') = None)
     => countdown_end_time' = None
  /\ \A w \in Workers :
       (wpc[w] = "sending" /\ wpc'[w] = "writing" /\ DurationOf(wdata'[w]) = None)
       => countdown_end_time' = None
  /\ (pc = "cd_stop" /\ pc' = "cd_clear") => IsSome(countdown_end_time)

\* C5: an untimed submit stores None and no stop is written while the deadline
\* is None.
C5_UntimedCommandDisarms == [][C5_Steps]_vars

(***************************************************************************)
(* C6: a voice command is written and changes the countdown only when the  *)
(* confirmation response contains "yes"; any other response, the empty one *)
(* included, ends the request with no write and the countdown unchanged.   *)
(***************************************************************************)
Yes == <<"y", "e", "s">>

C6_State ==
  \A w \in Workers : wpc[w] \in {"sending", "writing"} => Contains(wresp[w], Yes)

C6_Steps ==
  \A w \in Workers :
    /\ (wpc[w] = "confirming" /\ wpc'[w] # "confirming")
       => /\ wire' = wire /\ countdown_end_time' = countdown_end_time
          /\ wpc'[w] \in {"sending", "idle"}
    /\ (wpc'[w] # wpc[w] /\ (countdown_end_time' # countdown_end_time \/ wire' # wire))
       => (wpc[w] \in {"sending", "writing"} /\ Contains(wresp[w], Yes))

\* C6: a worker sends, writes or changes the deadline only with a response
\* that contains "yes".
C6_OnlyOnYes == []C6_State /\ [][C6_Steps]_vars

\* a confirmed voice command has been written
C6_Witness ==
  /\ Len(wire) > 0 /\ Last(wire).src = "voice" /\ Last(wire).ok
  /\ \A w \in Workers : wpc[w] = "idle"

(***************************************************************************)
(* C7: a begun confirmation is resolved once: on "yes" exactly the pending *)
(* command is dispatched, once, and the flow is idle again; nothing more   *)
(* is dispatched without a new begin.                                      *)
(***************************************************************************)
PendingLine(w) ==
  LET p == parse_command(wout[w]) IN WireLine(Val(p.rpm), p.timer)

C7_Steps ==
  \* every write of a voice command ends the request that made it
  /\ (Len(wire') > Len(wire) /\ Last(wire').src = "voice")
     => \E w \in Workers : wpc[w] = "writing" /\ wpc'[w] = "idle"
  /\ \A w \in Workers :
       \* the one write of a request is the pending command and ends the request
       /\ (wpc[w] = "writing" /\ wpc'[w] # "writing" /\ pc' # "exited")
          => /\ wpc'[w] = "idle"
             /\ wire' = Append(wire, WriteCall(PendingLine(w), Last(wire').ok, "voice", wsess[w]))
       \* a worker writes and arms in no other position, and arms once
       /\ (wpc'[w] # wpc[w] /\ wire' # wire) => wpc[w] = "writing"
       /\ (wpc'[w] # wpc[w] /\ countdown_end_time' # countdown_end_time)
          => (wpc[w] = "sending" /\ wpc'[w] = "writing")
       \* an idle flow starts again with a new request only
       /\ (wpc[w] = "idle" /\ wpc'[w] # "idle") => wpc'[w] = "listening"

C7_State ==
  \A w \in Workers :
    wpc[w] = "writing" => (wdata[w] = PendingLine(w) /\ wout[w] # << >>)

\* C7: a request writes once, the pending command, and is idle afterwards.
C7_ResolvedOnce == []C7_State /\ [][C7_Steps]_vars

\* a confirmed command with a duration has been dispatched and its worker is
\* idle again
C7_Witness ==
  /\ Len(wire) > 0 /\ Last(wire).src = "voice" /\ IsTimedCmd(Last(wire))
  /\ IsSome(countdown_end_time)
  /\ \A w \in Workers : wpc[w] = "idle"

(***************************************************************************)
(* C8: at most one voice worker is in flight at any time.                  *)
(***************************************************************************)
InFlight == {w \in Workers : wpc[w] # "idle"}

\* C8: at most one worker is not idle.
C8_SingleFlight == Cardinality(InFlight) <= 1

(***************************************************************************)
(* C9: only the control loop (the main thread) writes to the serial port;  *)
(* no worker thread performs a write.                                      *)
(***************************************************************************)
\* C9: every write call in the log was made by the tick or by manual_submit.
C9_OnlyMainWrites == \A i \in 1..Len(wire) : wire[i].src \in {"tick", "manual"}

(***************************************************************************)
(* C10: the result of a voice worker that arrives after its session ended  *)
(* is discarded: no write on the port and no change of the countdown, in   *)
(* the closed session or in a later one.                                   *)
(***************************************************************************)
\* worker w outlived the session it was started in
Stale(w) == wpc[w] # "idle" /\ (~open \/ wsess[w] # sess)

C10_Steps ==
  \A w \in Workers :
    (Stale(w) /\ wpc'[w] # wpc[w])
    => /\ countdown_end_time' = countdown_end_time
       /\ (wire' = wire \/ ~Last(wire').ok)

\* C10: a step of a worker that outlived its session changes neither the
\* deadline nor the port.
C10_LateResultDiscarded == [][C10_Steps]_vars

(***************************************************************************)
(* C12: after every tick the window's timestamps are non-decreasing in     *)
(* index order and every retained frame has t >= now - 60, now being the   *)
(* session-relative time of that tick.                                     *)
(***************************************************************************)
Sorted(ts) == \A i, j \in 1..Len(ts) : i < j => ts[i] <= ts[j]

\* the eviction step of a tick; its current_time is now - start_time
EvictStep == pc = "evict" /\ pc' = "cd_test"

C12_Steps ==
  EvictStep => \A i \in 1..Len(t_data') : t_data'[i] >= (now - start_time) - WINDOW

\* C12: the timestamps are always in order, and every eviction step leaves
\* only frames with t >= current_time - 60.
C12_WindowInvariant == []Sorted(t_data) /\ [][C12_Steps]_vars

\* a tick has evicted one frame and kept two, the older one exactly 60 s old
C12_Witness ==
  /\ pc = "cd_test" /\ pops = 1 /\ Len(t_data) = 2
  /\ t_data[1] = (now - start_time) - WINDOW /\ t_data[1] < t_data[2]

(***************************************************************************)
(* C13: eviction removes exactly the contiguous oldest prefix of frames    *)
(* with t < now - 60: no frame with t >= now - 60 and no interior frame is *)
(* removed, and the retained frames keep their order and field values.     *)
(***************************************************************************)
\* series s without its first k entries
Drop(s, k) == Slice(s, k + 1, Len(s))

C13_Steps ==
  EvictStep =>
    \E k \in 0..Len(t_data) :
      /\ \A i \in 1..k : t_data[i] < (now - start_time) - WINDOW
      /\ \A i \in (k + 1)..Len(t_data) : t_data[i] >= (now - start_time) - WINDOW
      /\ t_data' = Drop(t_data, k) /\ rpm_data' = Drop(rpm_data, k)
      /\ ma_data' = Drop(ma_data, k) /\ set_data' = Drop(set_data, k)
      /\ pwm_data' = Drop(pwm_data, k) /\ perr_data' = Drop(perr_data, k)

\* C13: every eviction step drops the first k frames of all six series, these
\* k frames are older than current_time - 60 and none of the others is.
C13_EvictsStalePrefix == [][C13_Steps]_vars

\* a tick has evicted two frames and kept the third, exactly 60 s old, with
\* the values of its line
C13_Witness ==
  /\ pc = "cd_test" /\ pops = 2 /\ Len(t_data) = 1
  /\ t_data[1] = (now - start_time) - WINDOW
  /\ rpm_data[1] = << FALSE, 7, 1 >> /\ pwm_data[1] = 0 - 4

(***************************************************************************)
(* C14: eviction runs on every tick whether or not new frames arrived:     *)
(* when no frame arrives for more than 60 seconds while ticks continue,    *)
(* the window eventually becomes empty.                                    *)
(***************************************************************************)
\* the window holds frames, the newest more than 60 s old, and nothing waits
\* to be read
Idle60 ==
  /\ open /\ t_data # << >> /\ rx = << >>
  /\ (now - start_time) - Last(t_data) > WINDOW

\* C14: from a window whose newest frame is more than 60 s old, the ticks
\* lead to an empty window unless a line arrives or the session ends first.
C14_IdleWindowEmpties == Idle60 ~> (t_data = << >> \/ rx # << >> \/ ~open)

\* a tick that read nothing has evicted every frame
C14_Witness ==
  /\ pc = "cd_test" /\ reads = << >> /\ pops > 0 /\ t_data = << >> /\ open

(***************************************************************************)
(* C15: a malformed telemetry line (a missing field, labels in another     *)
(* order, a non-numeric value) adds nothing to the window, and every line  *)
(* appends one value to each of the six series or to none.                 *)
(***************************************************************************)
MalformedLines == {BadValueLine, MissingFieldLine, SwappedLine}

\* the drain loop of a tick over the bytes waiting in rx
DrainStep == pc = "idle" /\ pc' = "evict"

EqualLength ==
  /\ Len(rpm_data) = Len(t_data) /\ Len(ma_data) = Len(t_data)
  /\ Len(set_data) = Len(t_data) /\ Len(pwm_data) = Len(t_data)
  /\ Len(perr_data) = Len(t_data)

C15_Steps ==
  DrainStep =>
    Len(t_data') - Len(t_data)
      <= Cardinality({i \in 1..Len(ReadAll(rx)) : ReadAll(rx)[i] \notin MalformedLines})

WellFormed(raw) == Strip(raw) # << >> /\ Decode(Strip(raw)).ok

\* the frames of the well-formed ones among the lines read, in order
Frames(lines) ==
  LET kept == SelectSeq(lines, WellFormed)
  IN  [i \in 1..Len(kept) |-> Decode(Strip(kept[i]))]

\* the main thread leaves idle to run update
TickStart == pc = "idle" /\ pc' \notin {"idle", "ms_write", "closed"}

C16_Steps ==
  TickStart =>
    LET fr == Frames(ReadAll(rx))
    IN  /\ pc' = "evict"
        /\ t_data' = t_data \o [i \in 1..Len(fr) |-> now - start_time]
        /\ rpm_data' = rpm_data \o [i \in 1..Len(fr) |-> fr[i].rpm]
        /\ ma_data' = ma_data \o [i \in 1..Len(fr) |-> fr[i].ma]
        /\ set_data' = set_data \o [i \in 1..Len(fr) |-> fr[i].set]
        /\ pwm_data' = pwm_data \o [i \in 1..Len(fr) |-> fr[i].pwm]
        /\ perr_data' = perr_data \o [i \in 1..Len(fr) |-> fr[i].perr]

\* C16: the drain loop of every tick stores the frame of every well-formed
\* line it reads, whatever lines come before it, and goes on to the eviction.
C16_RejectIsSkipped == [][C16_Steps]_vars

\* a tick has read a rejected line and then two well-formed lines, stored
\* both frames and gone on through the eviction
C16_Witness ==
  /\ pc = "cd_test" /\ reads = << SwappedLine, GoodLine2, GoodLine >>
  /\ pwm_data = << 0 - 4, 3 >>

(***************************************************************************)
(* C17: the decoder is only ever given complete newline-terminated lines:  *)
(* when the transport delivers a line in pieces, no piece is decoded on    *)
(* its own, so no frame is ever built from a truncated line.               *)
(***************************************************************************)
\* C17: every read of a tick from which a frame was built ends with "\n".
C17_NoTruncatedFrame ==
  \A i \in 1..Len(reads) : WellFormed(reads[i]) => Last(reads[i]) = "\n"

(***************************************************************************)
(* C18: the structured pair.                                               *)
(***************************************************************************)
\* digits, then a run of commas and whitespace, then digits, and nothing else
PairShape(s) ==
  \E i \in 1..Len(s) : \E j \in (i + 2)..Len(s) :
    /\ AllIn(Slice(s, 1, i), Digits)
    /\ AllIn(Slice(s, i + 1, j - 1), {","} \cup Space)
    /\ AllIn(Slice(s, j, Len(s)), Digits)

\* C18: the text "r d" or "r,d" of two unsigned integers, with whitespace
\* around it, parses to (rpm = r, duration = d); a text with anything besides
\* the two integers and the separator is not matched by the pair pattern.
C18_PairGrammar ==
  /\ \A pre \in Pads, r \in Nums, sep \in Seps, d \in Nums, post \in Pads :
       (cmd_text = pre \o r.s \o sep \o d.s \o post /\ IsSome(cmd_parsed))
         => Val(cmd_parsed) = [rpm |-> Some(r.v), timer |-> Some(d.v), raised |-> FALSE]
  /\ ReMatch(TwoNumbersRe, Strip(cmd_text), TRUE).ok => PairShape(Strip(cmd_text))

C18_Witness ==
  /\ cmd_text = << " ", "1", "5", ",", "0", "0", "7", "\n" >>
  /\ cmd_parsed = Some([rpm |-> Some(15), timer |-> Some(7), raised |-> FALSE])

(***************************************************************************)
(* C19: the tagged integers of a phrase.                                   *)
(***************************************************************************)
\* where the runs of digits of s begin
RunStarts(s) == {i \in 1..Len(s) : s[i] \in Digits /\ (i = 1 \/ s[i - 1] \notin Digits)}

\* the value of the run of digits that begins at i
NumAt(s, i) == DigitsToNat(Slice(s, i, i + RunLen(s, i, Digits) - 1))

\* the first position after the run of digits at i and the whitespace behind it
WordAt(s, i) ==
  i + RunLen(s, i, Digits) + RunLen(s, i + RunLen(s, i, Digits), Space)

\* the word w, in any letter case, stands at position u of s
StartsWith(s, u, w) ==
  /\ u + Len(w) - 1 <= Len(s)
  /\ Lower(Slice(s, u, u + Len(w) - 1)) = w

\* the runs of digits of s that one of the words follows
Tagged(s, words) ==
  {i \in RunStarts(s) : \E w \in words : StartsWith(s, WordAt(s, i), w)}

Least(S) == CHOOSE x \in S : \A y \in S : x <= y

RpmWord == << "r", "p", "m" >>
MinuteWord == << "m", "i", "n", "u", "t", "e" >>
SecondWord == << "s", "e", "c", "o", "n", "d" >>

\* the duration the first integer with a unit stands for
TaggedSeconds(s) ==
  LET i == Least(Tagged(s, {MinuteWord, SecondWord}))
  IN  IF StartsWith(s, WordAt(s, i), MinuteWord) THEN 60 * NumAt(s, i) ELSE NumAt(s, i)

\* C19: for a text that is not a structured pair, the RPM of the result is the
\* first integer that "rpm" follows (whitespace between them allowed, any
\* letter case), and the duration is the first integer that "minute" or
\* "second" follows, times 60 for minutes; without such an integer the
\* duration is none.
C19_TaggedIntegers ==
  LET s == Strip(cmd_text)
      res == Val(cmd_parsed)
  IN  (IsSome(cmd_parsed) /\ ~PairShape(s) /\ ~res.raised) =>
        /\ Tagged(s, {RpmWord}) # {}
             => res.rpm = Some(NumAt(s, Least(Tagged(s, {RpmWord}))))
        /\ Tagged(s, {MinuteWord, SecondWord}) # {}
             => res.timer = Some(TaggedSeconds(s))
        /\ Tagged(s, {MinuteWord, SecondWord}) = {} => res.timer = None

C19_Witness ==
  /\ cmd_text = << "s", "e", "t", " ", "t", "o", " ", "2", "0", "0", "0", " ", "r", "p", "m", " ",
                 "f", "o", "r", " ", "5", " ", "m", "i", "n", "u", "t", "e", "s" >>
  /\ cmd_parsed = Some([rpm |-> Some(2000), timer |-> Some(300), raised |-> FALSE])

(***************************************************************************)
(* C20: the single number, and Invalid.                                    *)
(***************************************************************************)
\* the ways to write one decimal number: sign, digits with a point, exponent
NumeralRes ==
  { << It(Signs, "?"), It(Digits, "+"), It({"."}, "?"), It(Digits, "*") >>,
    << It(Signs, "?"), It({"."}, "1"), It(Digits, "+") >>,
    << It(Signs, "?"), It(Digits, "+"), It({"."}, "?"), It(Digits, "*"),
       It({"e", "E"}, "1"), It(Signs, "?"), It(Digits, "+") >>,
    << It(Signs, "?"), It({"."}, "1"), It(Digits, "+"),
       It({"e", "E"}, "1"), It(Signs, "?"), It(Digits, "+") >> }

IsNumeral(s) == \E re \in NumeralRes : ReMatch(re, s, TRUE).ok

\* C20: a text that is one unsigned integer gives that integer as RPM and no
\* duration; a text that is neither a pair nor one number and has no integer
\* tagged "rpm" (the empty and the blank text among them) gives a result
\* without RPM, whether or not a duration was found.
C20_SingleNumberOrInvalid ==
  LET s == Strip(cmd_text)
      res == Val(cmd_parsed)
  IN  IsSome(cmd_parsed) =>
        /\ (s # << >> /\ AllIn(s, Digits))
             => res = [rpm |-> Some(DigitsToNat(s)), timer |-> None, raised |-> FALSE]
        /\ (~PairShape(s) /\ Tagged(s, {RpmWord}) = {} /\ ~IsNumeral(s))
             => (~res.raised /\ res.rpm = None)

(***************************************************************************)
(* C11: voice requests and the control loop.                               *)
(***************************************************************************)
\* a voice request is being processed, by a worker or by the callback itself
VoiceUnderWay == pc \in TestVoicePositions \/ \E w \in Workers : wpc[w] # "idle"

\* the window's thread is between two ticks, in a tick or in the short
\* manual submit: ticks run
LoopRuns == pc \in {"idle", "evict", "cd_test", "cd_remaining", "cd_stop", "cd_clear",
                    "ms_write"}

\* C11: while a voice request is being processed and the port is open, the
\* thread of the control loop is not held by the request: its ticks go on.
C11_VoiceOffTheLoop == (open /\ VoiceUnderWay) => LoopRuns

(***************************************************************************)
(* C21: negative numbers.                                                  *)
(***************************************************************************)
\* C21: no result of parse_command has a negative RPM or a negative
\* duration, and a text that is "-" and digits gives a result without RPM.
C21_NoNegative ==
  LET s == Strip(cmd_text)
      res == Val(cmd_parsed)
  IN  IsSome(cmd_parsed) =>
        /\ IsSome(res.rpm) => Val(res.rpm) >= 0
        /\ IsSome(res.timer) => Val(res.timer) >= 0
        /\ (Len(s) > 1 /\ s[1] = "-" /\ AllIn(Slice(s, 2, Len(s)), Digits))
             => res.rpm = None

(***************************************************************************)
(* C22: the wire line of a timed command, parsed again.                    *)
(***************************************************************************)
\* C22: parse_command of the line "r,d\n" that send_command builds of the
\* command (r, d) gives (r, d).
C22_RoundTrip ==
  \A r \in WireNums, d \in WireNums :
    (cmd_text = WireLine(r, Some(d)) /\ IsSome(cmd_parsed))
      => Val(cmd_parsed) = [rpm |-> Some(r), timer |-> Some(d), raised |-> FALSE]

C22_Witness ==
  /\ cmd_text = << "2", "0", "0", "0", ",", "3", "0", "0", "\n" >>
  /\ cmd_text = WireLine(2000, Some(300))
  /\ cmd_parsed = Some([rpm |-> Some(2000), timer |-> Some(300), raised |-> FALSE])

(***************************************************************************)
(* C25: no text is fatal.                                                  *)
(***************************************************************************)
\* C25: every call of parse_command returns: a result with an RPM, or one
\* without (Invalid); no call ends with an exception.
C25_NeverRaises == IsSome(cmd_parsed) => ~Val(cmd_parsed).raised

(***************************************************************************)
(* C23: the form of the lines on the wire.                                 *)
(***************************************************************************)
\* "<digits>\n" or "<digits>,<digits>\n"
UnsignedLine(data) ==
  /\ Len(data) >= 2 /\ Last(data) = "\n"
  /\ LET body == Slice(data, 1, Len(data) - 1)
         c == Find(body, ",", 1)
     IN  IF c <= Len(body)
         THEN /\ c > 1 /\ c < Len(body)
              /\ AllIn(Slice(body, 1, c - 1), Digits)
              /\ AllIn(Slice(body, c + 1, Len(body)), Digits)
         ELSE AllIn(body, Digits)

\* C23: every line written to the port is "<rpm>\n" or "<rpm>,<duration>\n"
\* with unsigned decimal integers, and the line of the expiry is "0\n".
C23_WireFormat ==
  \A i \in 1..Len(wire) :
    /\ UnsignedLine(wire[i].data)
    /\ wire[i].src = "tick" => wire[i].data = << "0", "\n" >>

(***************************************************************************)
(* C24: an invalid command.                                                *)
(***************************************************************************)
\* no RPM can be taken from the text
NoRpmIn(text) == parse_command(text).rpm = None

\* the RPM box is no integer, or the Time box is filled and no integer
InvalidBoxes ==
  \/ ~PyInt(Strip(rpm_box)).ok
  \/ Strip(time_box) # << >> /\ ~PyInt(Strip(time_box)).ok

C24_State ==
  /\ pc = "ms_write" => ~InvalidBoxes
  /\ \A w \in Workers : wpc[w] = "writing" => ~NoRpmIn(wout[w])

C24_Steps ==
  /\ \A w \in Workers :
       (wpc[w] = "sending" /\ wpc'[w] # "sending" /\ NoRpmIn(wout[w]))
         => /\ wpc'[w] = "idle"
            /\ wire' = wire
            /\ countdown_end_time' = countdown_end_time
  /\ (/\ pc = "idle" /\ InvalidBoxes
      /\ rpm_box' = rpm_box /\ time_box' = time_box
      /\ workerVars' = workerVars /\ now' = now)
       => /\ pc' # "ms_write"
          /\ wire' = wire
          /\ countdown_end_time' = countdown_end_time

\* C24: send_command of a text without RPM, and manual_submit of a box that
\* is no integer, write nothing and leave the deadline as it was, also when
\* the text has a duration; neither goes on to a write.
C24_InvalidChangesNothing == []C24_State /\ [][C24_Steps]_vars

\* a text with a duration and no RPM is about to be sent, and the boxes are
\* invalid, while a deadline is armed
C24_Witness ==
  /\ pc = "idle" /\ open /\ InvalidBoxes
  /\ IsSome(countdown_end_time)
  /\ \E w \in Workers :
       /\ wpc[w] = "sending"
       /\ wout[w] = << "5", " ", "m", "i", "n", "u", "t", "e", "s" >>

(***************************************************************************)
(* C26: a failed write.                                                    *)
(***************************************************************************)
\* C26: the operation whose write has failed returns normally: no failed
\* write on the port leaves update or a submit by an exception.
C26_FailedWriteReturns ==
  (Len(wire) > 0 /\ ~Last(wire).ok) => pc # "raised"

(***************************************************************************)
(* C27: the drain loop ends.                                               *)
(***************************************************************************)
\* C27: a drain loop that has begun ends (the tick goes on to the eviction),
\* also when reads raise.
C27_DrainEnds == (pc = "rd_test") ~> (pc = "evict")

(***************************************************************************)
(* C28: nothing crosses sessions.                                          *)
(***************************************************************************)
\* commands with a duration that have armed the deadline in this session:
\* those on the wire and those whose write is still to come
TimedArmings ==
  Cardinality({i \in CmdIdx : IsTimedCmd(wire[i])})
  + (IF pc = "ms_write" /\ IsSome(DurationOf(m_cmd)) THEN 1 ELSE 0)
  + Cardinality({w \in Workers : wpc[w] = "writing" /\ IsSome(DurationOf(wdata[w]))})

\* every stop written in this session answers a deadline armed in it
C28_State == Cardinality(StopIdx) <= TimedArmings

\* a session starts with an empty window and no deadline
C28_Steps ==
  sess' # sess =>
    /\ t_data' = << >> /\ rpm_data' = << >> /\ ma_data' = << >>
    /\ set_data' = << >> /\ pwm_data' = << >> /\ perr_data' = << >>
    /\ countdown_end_time' = None

\* C28: every session starts with an empty window and an idle countdown,
\* whatever the session before ended with, and no stop is written for a
\* deadline of an earlier session.
C28_NothingCrossesSessions == []C28_State /\ [][C28_Steps]_vars

\* the second session has started after the first ended with frames in the
\* window and a deadline armed: the port could not be opened, so the wire
\* still shows the timed command, which no stop and no command followed
C28_Witness ==
  /\ sess = 2 /\ pc = "closed"
  /\ Len(wire) = 1 /\ IsTimedCmd(wire[1])
  /\ t_data = << >> /\ countdown_end_time = None

(***************************************************************************)
(* C29: the order of the steps of a tick.                                  *)
(***************************************************************************)
TickPositions == {"idle", "evict", "cd_test", "cd_remaining", "cd_stop", "cd_clear"}

\* how far update has come: 0 before the drain, 1 before the eviction, 2 and
\* more in the countdown
Rank(p) ==
  CASE p = "idle" -> 0
    [] p = "evict" -> 1
    [] p = "cd_test" -> 2
    [] p = "cd_remaining" -> 3
    [] p = "cd_stop" -> 4
    [] p = "cd_clear" -> 5

C29_Steps ==
  \* the positions are passed in their order, up to the return
  /\ (pc \in TickPositions /\ pc' \in TickPositions /\ pc' # pc)
       => (pc' = "idle" \/ Rank(pc') = Rank(pc) + 1)
  \* the drain comes first and takes every waiting line
  /\ (pc = "idle" /\ pc' = "evict") => (rx' = << >> /\ reads' = ReadAll(rx))
  \* then the eviction: no frame that is left is stale, the frames of this
  \* tick among them
  /\ (pc = "evict" /\ pc' # pc)
       => /\ pc' = "cd_test"
          /\ \A i \in 1..Len(t_data') : ~(t_data'[i] < (now - start_time) - WINDOW)
  \* the window changes in these two steps only
  /\ (t_data' # t_data /\ sess' = sess) => (pc \in {"idle", "evict"} /\ pc' \in {"evict", "cd_test"})
  \* the countdown comes after them: the label, and on expiry the stop, which
  \* is written when the label has been cleared
  /\ (countdown_text' # countdown_text /\ sess' = sess) => pc \in {"cd_test", "cd_remaining"}
  /\ (Len(wire') > Len(wire) /\ Last(wire').src = "tick")
       => (pc = "cd_stop" /\ countdown_text = None)

\* the report is the last thing a tick does
ReportLast == (countdown_text' # countdown_text /\ sess' = sess) => pc' = "idle"

\* C29 as stated: within a tick the waiting lines are drained first, then
\* stale frames are evicted, then the countdown is advanced and the stop
\* written on expiry, and then the label is set.
C29_ReportAfterStop == [][C29_Steps /\ ReportLast]_vars

\* C29, amended: within a tick the waiting lines are drained first, then stale
\* frames are evicted, then the countdown is tested and the label set; on
\* expiry the label is cleared before the stop is written.  The frames drained
\* in a tick pass that tick's eviction.
C29_TickOrder == [][C29_Steps]_vars

\* a tick has drained a frame, evicted it, cleared the label and written the stop
C29_Witness ==
  /\ pc = "cd_clear" /\ pops = 1 /\ t_data = << >>
  /\ Len(reads) = 1 /\ WellFormed(reads[1])
  /\ countdown_text = None
  /\ Len(wire) > 0 /\ Last(wire).src = "tick"

(***************************************************************************)
(* C30: the three cases of the countdown in a tick.                        *)
(***************************************************************************)
\* a step of the tick: the time stands still and no command is written
TickStep ==
  /\ pc = "idle" /\ pc' = "idle" /\ now' = now
  /\ wire' = wire \/ (Len(wire') = Len(wire) + 1 /\ Last(wire').src = "tick")

StopWritten ==
  /\ Len(wire') = Len(wire) + 1
  /\ Last(wire').src = "tick" /\ Last(wire').data = StopLine

\* n is the time r, in 1/SubSec s, cut down to whole seconds
Truncated(r, n) == n * SubSec <= r /\ r < (n + 1) * SubSec

C30_Steps ==
  TickStep =>
    /\ countdown_end_time = None
         => (countdown_text' = None /\ wire' = wire /\ countdown_end_time' = None)
    /\ (IsSome(countdown_end_time) /\ now < Val(countdown_end_time))
         => /\ IsSome(countdown_text')
            /\ Truncated(Val(countdown_end_time) - now, Val(countdown_text'))
            /\ wire' = wire
            /\ countdown_end_time' = countdown_end_time
    /\ (IsSome(countdown_end_time) /\ now >= Val(countdown_end_time))
         => (StopWritten /\ countdown_text' = None)
    /\ StopWritten => (IsSome(countdown_end_time) /\ now >= Val(countdown_end_time))

\* C30: a tick with no deadline shows the empty label and writes nothing; one
\* with now < deadline shows deadline - now cut down to whole seconds, writes
\* nothing and keeps the deadline; one with now >= deadline is the expiry, and
\* only there a stop is written.
C30_ThreeCases == [][C30_Steps]_vars

\* less than a second is left, and the tick has shown 0
C30_Witness ==
  /\ IsSome(countdown_end_time) /\ Val(countdown_end_time) - now = 1
  /\ countdown_text = Some(0)

(***************************************************************************)
(* C31: a deadline armed by a worker's submit is not lost to a tick.       *)
(***************************************************************************)
\* a submit sets or clears the deadline in this step
SubmitStep ==
  \/ pc = "idle" /\ pc' = "ms_write"
  \/ \E w \in Workers : wpc[w] = "sending" /\ wpc'[w] # "sending"

C31_Steps ==
  (IsSome(countdown_end_time) /\ countdown_end_time' # countdown_end_time)
    => \/ SubmitStep
       \/ sess' # sess
       \* the tick at line 371 has made its stop call
       \/ pc = "cd_clear" /\ now >= Val(countdown_end_time)

\* C31: an armed deadline goes away only when a submit replaces or clears it,
\* when a session starts, or when a tick has written the stop at or after that
\* deadline; the tick that clears an expired deadline does not erase a newer
\* one.
C31_DeadlineNotLost == [][C31_Steps]_vars

(***************************************************************************)
(* C32: no stop for an older deadline after the line of a newer command.   *)
(***************************************************************************)
\* the tick makes its stop call in this step
TickStopStep ==
  /\ pc = "cd_stop" /\ Len(wire') = Len(wire) + 1
  /\ Last(wire').src = "tick" /\ Last(wire').ok

\* the latest call on the port is the line of a worker's command, and no other
\* submit has set the deadline without having written yet
NewerCommandWritten ==
  /\ Len(wire) > 0 /\ Last(wire).src = "voice" /\ Last(wire).ok
  /\ \A w \in Workers : wpc[w] # "writing"

\* C32: when the line of a worker's command is the latest on the port, the
\* tick writes a stop after it only if that command has a deadline and the
\* deadline has passed.
C32_NoStaleStop ==
  [][(TickStopStep /\ NewerCommandWritten)
       => /\ IsSome(DurationOf(Last(wire).data))
          /\ IsSome(countdown_end_time) /\ now >= Val(countdown_end_time)]_vars

(***************************************************************************)
(* C33: the countdown step of a tick does not fail.                        *)
(***************************************************************************)
\* C33: when the tick, having found a deadline at line 362, computes the
\* remaining time at line 363, the deadline it reads is not None.
C33_TickNeverFails ==
  [][(pc = "cd_remaining" /\ pc' # "cd_remaining") => IsSome(countdown_end_time)]_vars

(***************************************************************************)
(* C34: a command whose write failed does not arm the countdown.  A        *)
(* session starts with no deadline, so as long as every command write of   *)
(* the session has failed, and no submit stands between its assignment and *)
(* its write, there is no deadline.                                        *)
(***************************************************************************)
EveryCommandFailed ==
  /\ \E i \in 1..Len(wire) : wire[i].src # "tick"
  /\ \A i \in 1..Len(wire) : wire[i].src # "tick" => ~wire[i].ok

\* C34: a submit whose write failed leaves the deadline as it was: with failed
\* command writes only, the session's deadline is still None.
C34_FailedWriteArmsNothing ==
  (open /\ NoSubmitUnderWay /\ EveryCommandFailed) => countdown_end_time = None

(***************************************************************************)
(* C35: the manual path and the text path agree.                           *)
(***************************************************************************)
\* C35: for a number r and no duration, manual_submit with the field r and
\* send_command with the text "r" give the same line (the deadline is None on
\* both paths).
C35_SamePaths == m_cmd # << >> => (m_cmd = wdata[1] /\ countdown_end_time = None)

(***************************************************************************)
(* C36: the listening duration is put back.                                *)
(***************************************************************************)
\* C36: while the program runs and no voice worker is under way, v2t.DURATION
\* has the value it had at program start.
C36_DurationRestored ==
  (pc # "exited" /\ \A w \in Workers : Idle(w)) => DURATION = DEFAULT_DURATION

(***************************************************************************)
(* C37: what listen_for_trigger returns.                                   *)
(***************************************************************************)
PunctuationMarks ==
  { "!", "\"", "#", "$", "%", "&", "'", "(", ")", "*", "+", ",", "-", ".", "/", ":",
    ";", "<", "=", ">", "?", "@", "[", "\\", "]", "^", "_", "{", "|", "}", "~" }

\* a word begins at p
WordStart(text, p) == text[p] \notin Space /\ (p = 1 \/ text[p - 1] \in Space)

\* the letters at a..b are the trigger word in any case, alone in their word
\* but for punctuation marks before and after, and fewer than 20 words begin
\* before that word
TriggerAt(text, a, b) ==
  /\ Lower(SubSeq(text, a, b)) = Lower(TRIGGER_WORD)
  /\ \E p \in 1..a :
       /\ WordStart(text, p)
       /\ \A i \in p..(a - 1) : text[i] \in PunctuationMarks
       /\ Cardinality({ k \in 1..(p - 1) : WordStart(text, k) }) < 20
  /\ \E q \in b..Len(text) :
       /\ (q = Len(text) \/ text[q + 1] \in Space)
       /\ \A i \in (b + 1)..q : text[i] \in PunctuationMarks

TriggerInFirst20(text) ==
  \E a \in 1..(Len(text) - Len(TRIGGER_WORD) + 1) :
    TriggerAt(text, a, a + Len(TRIGGER_WORD) - 1)

C37_Steps ==
  /\ (wpc[1] # "heard" /\ wpc'[1] = "heard")
       => (wout'[1] = cmd_text /\ TriggerInFirst20(cmd_text))
  /\ (wpc[1] = "matching" /\ ~TriggerInFirst20(cmd_text))
       => (wpc'[1] = "recording" /\ wout'[1] = << >>)

\* C37: listen_for_trigger returns a transcription only when one of its first
\* 20 words is the trigger word once the punctuation around it is stripped,
\* in any letter case; a transcription without it is not returned, and the
\* next recording is made.
C37_TriggerOnly == [][C37_Steps]_vars

\* returned: the trigger word as the 20th word, in capitals and in brackets
C37_Witness ==
  /\ wpc[1] = "heard"
  /\ wout[1] = [i \in 1..38 |-> IF i % 2 = 1 THEN "a" ELSE " "]
                 \o << "(", "j", "e", "f", "f", ")", "!" >>

====
